---------------------------- MODULE Spec2Model ----------------------------
(***************************************************************************)
(* Planner and orchestrator of the enterprise-agents backend.              *)
(*                                                                         *)
(*   planner/main.py       DAGGenerator, EventManager, PlannerService      *)
(*   orchestrator/main.py  EventManager, PlanningManager, OrchestratorService*)
(*                                                                         *)
(* networkx is modelled as release 2.6 and later implement it: a DiGraph   *)
(* keeps nodes and edges in insertion order, topological_sort is the       *)
(* concatenation of topological_generations and raises NetworkXUnfeasible   *)
(* on a cycle, dag_longest_path reads the weight attribute of EDGES.       *)
(***************************************************************************)
EXTENDS Integers, Sequences, FiniteSets, TLC

VARIABLES
    graph,            \* nx.DiGraph under analysis: [nodes, edges] in insertion order
    tasks,            \* List[TaskNode] the graph was built from
    result,           \* what the DAGGenerator call returned (or raised)
    event_store,      \* table event_store: sequence of rows in insertion order
    plan_read_model,  \* table plan_read_model: sequence of rows, unique plan_id
    task_read_model,  \* table task_read_model: sequence of rows, unique task_id
    planning_queue,   \* PlannerService.planning_queue (asyncio.Queue)
    request_queue,    \* OrchestratorService.request_queue (asyncio.Queue)
    plan_calls,       \* create_plan invocations: request, position, locals
    orch_calls,       \* orchestrate_request invocations
    hook_calls,       \* webhook invocations
    workers,          \* queue worker coroutines of both services
    acks,             \* responses of the /async endpoints
    background        \* BackgroundTasks: scheduled callbacks

vars == <<graph, tasks, result, event_store, plan_read_model, task_read_model,
          planning_queue, request_queue, plan_calls, orch_calls, hook_calls,
          workers, acks, background>>

graphVars == <<graph, tasks, result>>
serviceVars == <<event_store, plan_read_model, task_read_model, planning_queue,
                 request_queue, plan_calls, orch_calls, hook_calls, workers,
                 acks, background>>

NULL == <<"null">>

-----------------------------------------------------------------------------
(* Sequence helpers *)

Range(s) == {s[i] : i \in 1..Len(s)}

Contains(s, x) == \E i \in 1..Len(s) : s[i] = x

RECURSIVE SumSeq(_)
SumSeq(s) == IF s = <<>> THEN 0 ELSE s[1] + SumSeq(Tail(s))

RECURSIVE Flatten(_)
Flatten(ss) == IF ss = <<>> THEN <<>> ELSE ss[1] \o Flatten(Tail(ss))

Count(s, x) == Cardinality({i \in 1..Len(s) : s[i] = x})

Max2(a, b) == IF a >= b THEN a ELSE b

Min2(a, b) == IF a <= b THEN a ELSE b

SetMax(S) == CHOOSE m \in S : \A x \in S : x <= m

\* index of the first element of s satisfying membership in S (0 when none)
FirstIndexIn(s, S) ==
    IF \E i \in 1..Len(s) : s[i] \in S
    THEN CHOOSE i \in 1..Len(s) : s[i] \in S /\ \A j \in 1..(i-1) : s[j] \notin S
    ELSE 0

-----------------------------------------------------------------------------
(* networkx.DiGraph *)

EmptyGraph == [nodes |-> <<>>, edges |-> <<>>]

add_node(G, n) ==
    IF Contains(G.nodes, n) THEN G ELSE [G EXCEPT !.nodes = Append(@, n)]

\* DiGraph.add_edge: creates missing endpoints, accepts every edge (self
\* loops and edges that close a cycle included), ignores a repeated edge
add_edge(G, u, v) ==
    LET G1 == add_node(add_node(G, u), v)
    IN  IF Contains(G1.edges, <<u, v>>) THEN G1
        ELSE [G1 EXCEPT !.edges = Append(@, <<u, v>>)]

\* G.predecessors(v), G.successors(u): adjacency dicts keep insertion order
predecessors(G, v) ==
    LET F[i \in 0..Len(G.edges)] ==
            IF i = 0 THEN <<>>
            ELSE IF G.edges[i][2] = v THEN Append(F[i-1], G.edges[i][1])
                 ELSE F[i-1]
    IN  F[Len(G.edges)]

successors(G, u) ==
    LET F[i \in 0..Len(G.edges)] ==
            IF i = 0 THEN <<>>
            ELSE IF G.edges[i][1] = u THEN Append(F[i-1], G.edges[i][2])
                 ELSE F[i-1]
    IN  F[Len(G.edges)]

in_degree(G, v) == Len(predecessors(G, v))

\* one pass of topological_generations over this_generation: every child of
\* every node of the generation loses one unit of in-degree, a child that
\* reaches zero joins the next generation
RECURSIVE visit_children(_, _, _)
visit_children(children, indegree_map, zero_indegree) ==
    IF children = <<>>
    THEN [indegree_map |-> indegree_map, zero_indegree |-> zero_indegree]
    ELSE LET child == children[1]
             d == indegree_map[child] - 1
         IN  visit_children(Tail(children),
                            [indegree_map EXCEPT ![child] = d],
                            IF d = 0 THEN Append(zero_indegree, child)
                            ELSE zero_indegree)

RECURSIVE generations_from(_, _, _, _)
generations_from(G, indegree_map, this_generation, acc) ==
    IF this_generation = <<>>
    THEN [generations |-> acc,
          unfeasible |-> \E n \in Range(G.nodes) : indegree_map[n] > 0]
    ELSE LET children ==
                 Flatten([i \in 1..Len(this_generation) |->
                              successors(G, this_generation[i])])
             step == visit_children(children, indegree_map, <<>>)
         IN  generations_from(G, step.indegree_map, step.zero_indegree,
                              Append(acc, this_generation))

topological_generations(G) ==
    LET indegree_map == [n \in Range(G.nodes) |-> in_degree(G, n)]
        zero_indegree == SelectSeq(G.nodes, LAMBDA n : in_degree(G, n) = 0)
    IN  generations_from(G, indegree_map, zero_indegree, <<>>)

\* nx.topological_sort: [order, unfeasible]; unfeasible stands for the
\* NetworkXUnfeasible raised once the generator is exhausted
topological_sort(G) ==
    LET gens == topological_generations(G)
    IN  [order |-> Flatten(gens.generations), unfeasible |-> gens.unfeasible]

-----------------------------------------------------------------------------
(* Python exceptions.  Bases lists the classes an exception is an instance  *)
(* of; networkx.exception declares NetworkXUnfeasible under                 *)
(* NetworkXAlgorithmError, a sibling of NetworkXError.                      *)

Bases(exc) ==
    CASE exc = "NetworkXUnfeasible" ->
             {"NetworkXUnfeasible", "NetworkXAlgorithmError",
              "NetworkXException", "Exception"}
      [] exc = "NetworkXError" ->
             {"NetworkXError", "NetworkXException", "Exception"}
      [] OTHER -> {exc, "Exception"}

\* does `except handler:` catch an exception of class exc
Catches(handler, exc) == handler \in Bases(exc)

Returned(v) == [raised |-> "none", value |-> v]

Raised(exc) == [raised |-> exc, value |-> <<>>]

-----------------------------------------------------------------------------
(* DAGGenerator: schedule analysis of a graph *)

\* levels[node] = 0 without predecessors, else max(levels.get(pred, 0)) + 1,
\* filled in topological order
RECURSIVE assign_levels(_, _, _)
assign_levels(G, order, levels) ==
    IF order = <<>> THEN levels
    ELSE LET node == order[1]
             preds == predecessors(G, node)
             level == IF preds = <<>> THEN 0
                      ELSE SetMax({IF p \in DOMAIN levels THEN levels[p] ELSE 0 :
                                      p \in Range(preds)}) + 1
             ext == [n \in DOMAIN levels \cup {node} |->
                        IF n = node THEN level ELSE levels[n]]
         IN  assign_levels(G, Tail(order), ext)

node_levels(G, order) == assign_levels(G, order, [n \in {} |-> 0])

\* the nodes of one level, in the order the levels dict was filled
level_group(order, levels, l) == SelectSeq(order, LAMBDA n : levels[n] = l)

\* sorted(execution_levels.keys()) as a sequence
RECURSIVE SortedSeq(_)
SortedSeq(S) ==
    IF S = {} THEN <<>>
    ELSE LET m == CHOOSE x \in S : \A y \in S : x <= y
         IN  <<m>> \o SortedSeq(S \ {m})

\* keys of a dict filled by walking `order`: first occurrences, in order
RECURSIVE first_seen(_, _, _)
first_seen(order, levels, seen) ==
    IF order = <<>> THEN seen
    ELSE LET l == levels[order[1]]
         IN  first_seen(Tail(order), levels,
                        IF Contains(seen, l) THEN seen ELSE Append(seen, l))

\* execution_levels grouped by level, levels ascending
execution_levels(order, levels) ==
    LET keys == SortedSeq({levels[n] : n \in Range(order)})
    IN  [i \in 1..Len(keys) |-> level_group(order, levels, keys[i])]

\* the body of calculate_execution_order once list(nx.topological_sort) ran
execution_order_of(G, topo) ==
    IF topo.unfeasible
    THEN IF Catches("NetworkXError", "NetworkXUnfeasible")
         THEN Returned(<<G.nodes>>)
         ELSE Raised("NetworkXUnfeasible")
    ELSE Returned(execution_levels(topo.order, node_levels(G, topo.order)))

calculate_execution_order(G) == execution_order_of(G, topological_sort(G))

\* attribute `weight` of edge (u, v): the edges are added without attributes
\* (add_edge(u, v)), so every lookup answers default_weight
edge_weight(G, u, v, weight, default_weight) == default_weight

\* first element of us with the largest first component (Python max)
first_max(us) ==
    LET best == SetMax({us[i][1] : i \in 1..Len(us)})
    IN  us[CHOOSE i \in 1..Len(us) :
               us[i][1] = best /\ \A j \in 1..(i-1) : us[j][1] # best]

\* dist[v] = (length, u) over the topological order
RECURSIVE longest_dist(_, _, _)
longest_dist(G, order, dist) ==
    IF order = <<>> THEN dist
    ELSE LET v == order[1]
             preds == predecessors(G, v)
             us == [i \in 1..Len(preds) |->
                      <<dist[preds[i]][1]
                          + edge_weight(G, preds[i], v, "estimated_duration", 1),
                        preds[i]>>]
             maxu == IF us = <<>> THEN <<0, v>> ELSE first_max(us)
             dv == IF maxu[1] >= 0 THEN maxu ELSE <<0, v>>
             ext == [n \in DOMAIN dist \cup {v} |-> IF n = v THEN dv ELSE dist[n]]
         IN  longest_dist(G, Tail(order), ext)

RECURSIVE walk_back(_, _, _)
walk_back(dist, v, path) ==
    IF dist[v][2] = v THEN <<v>> \o path
    ELSE walk_back(dist, dist[v][2], <<v>> \o path)

\* the node that ends the longest path, then the walk back along dist
longest_path_from(order, dist) ==
    LET lens == [i \in 1..Len(order) |-> <<dist[order[i]][1], order[i]>>]
    IN  walk_back(dist, first_max(lens)[2], <<>>)

dag_longest_path_of(G, topo) ==
    IF G.nodes = <<>> THEN Returned(<<>>)
    ELSE IF topo.unfeasible THEN Raised("NetworkXUnfeasible")
    ELSE Returned(longest_path_from(topo.order,
                      longest_dist(G, topo.order, [n \in {} |-> <<0, n>>])))

\* nx.dag_longest_path(G, weight=...)
dag_longest_path(G) == dag_longest_path_of(G, topological_sort(G))

\* try: return nx.dag_longest_path(...) / except nx.NetworkXError
critical_path_or_fallback(G, path) ==
    IF path.raised # "none" /\ Catches("NetworkXError", path.raised)
    THEN Returned(G.nodes)
    ELSE path

calculate_critical_path(G, task_nodes) ==
    IF G.nodes = <<>> THEN Returned(<<>>)
    ELSE critical_path_or_fallback(G, dag_longest_path(G))

\* level_groups.values() without the filter on the group size
level_groups_of(order, levels) ==
    LET keys == first_seen(order, levels, <<>>)
    IN  [i \in 1..Len(keys) |-> level_group(order, levels, keys[i])]

\* the groups of more than one node, levels in the order the dict was filled
parallel_groups_of(order, levels) ==
    LET keys == first_seen(order, levels, <<>>)
        groups == [i \in 1..Len(keys) |-> level_group(order, levels, keys[i])]
    IN  SelectSeq(groups, LAMBDA g : Len(g) > 1)

parallelization_of(G, topo) ==
    IF topo.unfeasible
    THEN IF Catches("NetworkXError", "NetworkXUnfeasible")
         THEN Returned(<<>>)
         ELSE Raised("NetworkXUnfeasible")
    ELSE Returned(parallel_groups_of(topo.order, node_levels(G, topo.order)))

find_parallelization_opportunities(G) == parallelization_of(G, topological_sort(G))

\* tasks[task_id] for a task list (task ids are unique)
task_of(ts, id) == ts[CHOOSE i \in 1..Len(ts) : ts[i].task_id = id]

task_ids(ts) == [i \in 1..Len(ts) |-> ts[i].task_id]

\* calculate_total_duration without the branch for an empty critical path
calculate_total_duration_of_path(ts, critical_path) ==
    SumSeq([i \in 1..Len(critical_path) |->
               IF Contains(task_ids(ts), critical_path[i])
               THEN task_of(ts, critical_path[i]).estimated_duration
               ELSE 0])

calculate_total_duration(ts, critical_path) ==
    IF critical_path = <<>>
    THEN SumSeq([i \in 1..Len(ts) |-> ts[i].estimated_duration])
    ELSE SumSeq([i \in 1..Len(critical_path) |->
                    IF Contains(task_ids(ts), critical_path[i])
                    THEN task_of(ts, critical_path[i]).estimated_duration
                    ELSE 0])

-----------------------------------------------------------------------------
(* DAGGenerator: task templates *)

\* uuid.uuid4(): a fresh identifier; the k-th uuid drawn by invocation c
Uuid(c, k) == <<"uuid", c, k>>

map_task_type_to_team(task_type) ==
    CASE task_type \in {"computer_vision", "image_analysis"} -> "vision_computational"
      [] task_type \in {"design_generation", "brand_development"} -> "creative_design"
      [] task_type \in {"workflow_automation", "process_optimization",
                        "data_analysis", "analysis", "development"} -> "business_automation"
      [] task_type \in {"medical_diagnosis", "clinical_reasoning"} -> "healthcare_specialists"
      [] task_type \in {"content_creation", "social_media"} -> "marketing_creatives"
      [] OTHER -> "business_automation"

determine_primary_task_type(analysis) ==
    IF analysis.task_types # <<>> /\ analysis.task_types[1] # "general"
    THEN analysis.task_types[1]
    ELSE "design"

TaskNode(id, name, type, deps, duration, team, priority) ==
    [task_id |-> id, task_name |-> name, task_type |-> type,
     dependencies |-> deps, estimated_duration |-> duration,
     assigned_team |-> team, priority |-> priority]

workflow_sequence ==
    << [name |-> "Requirements Gathering", type |-> "analysis", duration |-> 20],
       [name |-> "Process Analysis",       type |-> "analysis", duration |-> 30],
       [name |-> "Workflow Design",        type |-> "workflow", duration |-> 45],
       [name |-> "Implementation",         type |-> "workflow", duration |-> 60],
       [name |-> "Testing & Validation",   type |-> "analysis", duration |-> 30] >>

\* task i of the list (i from 1) is enumerate index i-1
generate_workflow_tasks(analysis, c) ==
    [i \in 1..Len(workflow_sequence) |->
        TaskNode(Uuid(c, i), workflow_sequence[i].name, workflow_sequence[i].type,
                 <<>>, workflow_sequence[i].duration,
                 map_task_type_to_team(workflow_sequence[i].type),
                 Max2(1, 6 - (i - 1)))]

project_phases(analysis) ==
    << [name |-> "Project Planning",     type |-> "analysis", duration |-> 25],
       [name |-> "Concept Development",  type |-> determine_primary_task_type(analysis),
                                         duration |-> 40],
       [name |-> "Design & Prototyping", type |-> "design", duration |-> 50],
       [name |-> "Implementation",       type |-> "development", duration |-> 70],
       [name |-> "Quality Assurance",    type |-> "analysis", duration |-> 35],
       [name |-> "Documentation",        type |-> "content", duration |-> 30] >>

\* the multiplier table of generate_project_tasks, in tenths
duration_multiplier == [simple |-> 7, moderate |-> 10, complex |-> 14]

\* products d * (tenths/10) that the float multiplication leaves just below
\* the exact value when that value is an integer (d up to 300)
FloatBelow ==
    {<<90, 7>>, <<170, 7>>, <<180, 7>>, <<45, 14>>, <<85, 14>>, <<90, 14>>,
     <<165, 14>>, <<170, 14>>, <<175, 14>>, <<180, 14>>}

\* int(d * m) for the float m = tenths/10
int_times(d, tenths) ==
    IF <<d, tenths>> \in FloatBelow THEN (d * tenths) \div 10 - 1
    ELSE (d * tenths) \div 10

generate_project_tasks(analysis, c) ==
    IF analysis.complexity \notin DOMAIN duration_multiplier
    THEN Raised("KeyError")
    ELSE Returned(
        [i \in 1..Len(project_phases(analysis)) |->
            LET phase == project_phases(analysis)[i]
            IN  TaskNode(Uuid(c, i), phase.name, phase.type, <<>>,
                         int_times(phase.duration,
                                   duration_multiplier[analysis.complexity]),
                         map_task_type_to_team(phase.type),
                         Max2(1, 7 - (i - 1)))])

sequence_defs(analysis) ==
    LET task_types == analysis.task_types
    IN  << [name |-> "Task 1", type |-> task_types[1], duration |-> 30],
           [name |-> "Task 2",
            type |-> IF Len(task_types) > 1 THEN task_types[Len(task_types)]
                     ELSE task_types[1],
            duration |-> 25],
           [name |-> "Task 3", type |-> "analysis", duration |-> 20] >>

generate_sequence_tasks(analysis, c) ==
    [i \in 1..Len(sequence_defs(analysis)) |->
        TaskNode(Uuid(c, i), sequence_defs(analysis)[i].name,
                 sequence_defs(analysis)[i].type,
                 IF i > 1 THEN <<Uuid(c, i - 1)>> ELSE <<>>,
                 sequence_defs(analysis)[i].duration,
                 map_task_type_to_team(sequence_defs(analysis)[i].type),
                 5)]

-----------------------------------------------------------------------------
(* DAGGenerator.establish_dependencies *)

task_types_of(ts) == [i \in 1..Len(ts) |-> ts[i].task_type]

RECURSIVE add_edges_from(_, _, _)
add_edges_from(G, u, targets) ==
    IF targets = <<>> THEN G
    ELSE add_edges_from(add_edge(G, u, targets[1]), u, Tail(targets))

\* one heuristic: every task of type `after` depends on the first task of
\* type `before`; the dependency is appended to the task and added as an edge
depend_on_first(ts, G, before, after) ==
    IF Contains(task_types_of(ts), before) /\ Contains(task_types_of(ts), after)
    THEN LET first == ts[FirstIndexIn(task_types_of(ts), {before})]
             later == SelectSeq(ts, LAMBDA t : t.task_type = after)
         IN  [tasks |-> [i \in 1..Len(ts) |->
                            IF ts[i].task_type = after
                            THEN [ts[i] EXCEPT !.dependencies = Append(@, first.task_id)]
                            ELSE ts[i]],
              graph |-> add_edges_from(G, first.task_id, task_ids(later))]
    ELSE [tasks |-> ts, graph |-> G]

\* a variant of establish_dependencies with a third heuristic: every
\* analysis task depends on the first development task
establish_dependencies_with_review(ts, G) ==
    LET a == depend_on_first(ts, G, "analysis", "design")
        b == depend_on_first(a.tasks, a.graph, "design", "development")
    IN  depend_on_first(b.tasks, b.graph, "development", "analysis")

\* a variant of establish_dependencies with the first heuristic only
establish_dependencies_for_design(ts, G) ==
    depend_on_first(ts, G, "analysis", "design")

establish_dependencies(ts, G) ==
    LET a == depend_on_first(ts, G, "analysis", "design")
    IN  depend_on_first(a.tasks, a.graph, "design", "development")

-----------------------------------------------------------------------------
(* DAGGenerator: hints, risks, generate_dag *)

\* team_loads of a task list: teams in first-use order with their counts
teams_in_order(ts) ==
    first_seen(ts, [t \in Range(ts) |-> t.assigned_team], <<>>)

team_load(ts, team) ==
    Cardinality({i \in 1..Len(ts) : ts[i].assigned_team = team})

optimizations_of(ts, parallel_groups) ==
    LET long_tasks == SelectSeq(ts, LAMBDA t : t.estimated_duration > 60)
        teams == teams_in_order(ts)
        max_team == first_max([i \in 1..Len(teams) |->
                                  <<team_load(ts, teams[i]), teams[i]>>])
    IN  IF parallel_groups.raised # "none" THEN parallel_groups
        ELSE IF ts = <<>> THEN Raised("ValueError")
        ELSE Returned(
               (IF parallel_groups.value # <<>>
                THEN << <<"parallel", Len(parallel_groups.value)>> >> ELSE <<>>)
            \o (IF long_tasks # <<>>
                THEN << <<"split", Len(long_tasks)>> >> ELSE <<>>)
            \o (IF 10 * max_team[1] > 4 * Len(ts)
                THEN << <<"rebalance", max_team[1]>> >> ELSE <<>>))

generate_optimizations(G, ts) ==
    optimizations_of(ts, find_parallelization_opportunities(G))

identify_risk_factors(ts, G) ==
    LET root_nodes == SelectSeq(G.nodes, LAMBDA n : predecessors(G, n) = <<>>)
        long_tasks == SelectSeq(ts, LAMBDA t : t.estimated_duration > 90)
    IN     (IF Len(root_nodes) = 1 THEN << <<"bottleneck", 1>> >> ELSE <<>>)
        \o (IF long_tasks # <<>> THEN << <<"timeout", Len(long_tasks)>> >> ELSE <<>>)
        \o (IF Len(teams_in_order(ts)) = 1 THEN << <<"overload", 1>> >> ELSE <<>>)

RECURSIVE add_nodes_from(_, _)
add_nodes_from(G, ns) ==
    IF ns = <<>> THEN G ELSE add_nodes_from(add_node(G, ns[1]), Tail(ns))

\* the part of generate_dag after the task list exists: graph construction
\* and the schedule analysis, in the order of the calls
DAGPlan(ts, G, execution_order, critical_path, parallelization, optimizations, plan_type, app_id, c) ==
        IF execution_order.raised # "none" THEN execution_order
        ELSE IF critical_path.raised # "none" THEN critical_path
        ELSE IF parallelization.raised # "none" THEN parallelization
        ELSE IF optimizations.raised # "none" THEN optimizations
        ELSE Returned(
            [plan_id |-> Uuid(c, 0),
             tenant_id |-> "",
             app_id |-> app_id,
             plan_type |-> plan_type,
             tasks |-> ts,
             graph |-> G,
             dependencies |-> [i \in 1..Len(ts) |-> ts[i].dependencies],
             execution_order |-> execution_order.value,
             total_estimated_duration |->
                 calculate_total_duration(ts, critical_path.value),
             critical_path |-> critical_path.value,
             parallelization_opportunities |-> parallelization.value,
             risk_factors |-> identify_risk_factors(ts, G),
             optimization_suggestions |-> optimizations.value])

analyse_graph(ts, G, plan_type, app_id, c) ==
    DAGPlan(ts, G, calculate_execution_order(G), calculate_critical_path(G, ts),
            find_parallelization_opportunities(G), generate_optimizations(G, ts),
            plan_type, app_id, c)

analyse_built(built, plan_type, app_id, c) ==
    analyse_graph(built.tasks, built.graph, plan_type, app_id, c)

analyse_tasks(ts0, plan_type, app_id, c) ==
    analyse_built(
        establish_dependencies(ts0, add_nodes_from(EmptyGraph, task_ids(ts0))),
        plan_type, app_id, c)

\* generate_dag(objective_analysis, plan_type, app_id); the plan id is a
\* fresh uuid whatever the request carried
generate_tasks(analysis, plan_type, c) ==
    IF plan_type = "workflow" THEN Returned(generate_workflow_tasks(analysis, c))
    ELSE IF plan_type = "project" THEN generate_project_tasks(analysis, c)
    ELSE Returned(generate_sequence_tasks(analysis, c))

analyse_generated(generated, plan_type, app_id, c) ==
    IF generated.raised # "none" THEN generated
    ELSE analyse_tasks(generated.value, plan_type, app_id, c)

generate_dag(analysis, plan_type, app_id, c) ==
    analyse_generated(generate_tasks(analysis, plan_type, c), plan_type, app_id, c)

-----------------------------------------------------------------------------
(* ObjectiveAnalyzer.  A text is a sequence of tokens; `keyword in text` is  *)
(* read as "the keyword is one of the tokens", slicing counts tokens.        *)

task_patterns ==
    << [keywords |-> {"analyze", "examine", "review", "evaluate", "assess", "audit"},
        task_type |-> "data_analysis"],
       [keywords |-> {"design", "create", "generate", "build", "develop"},
        task_type |-> "design_generation"],
       [keywords |-> {"image", "visual", "photo", "picture", "vision", "recognize"},
        task_type |-> "computer_vision"],
       [keywords |-> {"automate", "process", "workflow", "streamline", "optimize"},
        task_type |-> "workflow_automation"],
       [keywords |-> {"medical", "health", "diagnosis", "clinical", "patient"},
        task_type |-> "medical_diagnosis"],
       [keywords |-> {"content", "write", "text", "article", "copy", "social"},
        task_type |-> "content_creation"] >>

any_in(keywords, text) == \E i \in 1..Len(text) : text[i] \in keywords

detect_plan_type(objective) ==
    IF any_in({"workflow", "process", "automate", "streamline"}, objective)
    THEN "workflow"
    ELSE IF any_in({"project", "create", "build", "develop"}, objective)
    THEN "project"
    ELSE IF any_in({"sequence", "series", "steps", "pipeline"}, objective)
    THEN "task_sequence"
    ELSE "project"

detect_task_types(objective) ==
    LET matched == SelectSeq(task_patterns, LAMBDA p : any_in(p.keywords, objective))
        detected_types == [i \in 1..Len(matched) |-> matched[i].task_type]
    IN  IF detected_types # <<>> THEN detected_types ELSE <<"general">>

complexity_indicators ==
    << [level |-> "simple",
        indicators |-> {"simple", "basic", "quick", "easy", "straightforward"}],
       [level |-> "moderate",
        indicators |-> {"comprehensive", "detailed", "thorough", "complete"}],
       [level |-> "complex",
        indicators |-> {"complex", "advanced", "sophisticated", "comprehensive",
                        "enterprise"}] >>

estimate_complexity(objective) ==
    LET hits == SelectSeq(complexity_indicators,
                          LAMBDA l : any_in(l.indicators, objective))
    IN  IF hits # <<>> THEN hits[1].level ELSE "moderate"

analyze_objective(objective) ==
    [plan_type |-> detect_plan_type(objective),
     task_types |-> detect_task_types(objective),
     complexity |-> estimate_complexity(objective),
     original_objective |-> objective]

-----------------------------------------------------------------------------
(* Schedule analysis as a state machine: a caller builds a task graph edge   *)
(* by edge and has it analysed, or calls generate_dag.                       *)

MaxNodes == 3

MaxEdges == 3

MaxDuration == 2

PlanTypes == {"workflow", "project", "task_sequence"}

ComplexityLevels == {"simple", "moderate", "complex"}

\* the values detect_task_types can return: the matched pattern types in
\* pattern order, or ["general"]
DetectableTaskTypes ==
    {<<"general">>} \cup
    {SelectSeq([i \in 1..Len(task_patterns) |-> task_patterns[i].task_type],
               LAMBDA t : t \in S) :
         S \in SUBSET {task_patterns[i].task_type : i \in 1..Len(task_patterns)} \ {{}}}

\* the complexity values a caller of generate_dag passes: the three levels
\* and a tag the multiplier table lacks
ComplexityInputs == ComplexityLevels \cup {"extreme"}

NoResult == [call |-> "none"]

\* task ids a caller chooses for its own nodes
NodeId(i) == <<"node", i>>

GraphInit ==
    /\ graph = EmptyGraph
    /\ tasks = <<>>
    /\ result = NoResult

\* a caller creates n task nodes with positive durations and adds them
NewTasks ==
    /\ result.call = "none"
    /\ tasks = <<>>
    /\ \E n \in 1..MaxNodes :
       \E d \in [1..n -> 1..MaxDuration] :
          /\ tasks' = [i \in 1..n |->
                          TaskNode(NodeId(i), "Task", "general", <<>>, d[i],
                                   map_task_type_to_team("general"), 1)]
          /\ graph' = add_nodes_from(EmptyGraph, [i \in 1..n |-> NodeId(i)])
    /\ UNCHANGED <<result, serviceVars>>

\* graph.add_edge(u, v) between two existing nodes
AddEdge ==
    /\ result.call = "none"
    /\ Len(graph.edges) < MaxEdges
    /\ \E u \in Range(graph.nodes), v \in Range(graph.nodes) :
          /\ ~Contains(graph.edges, <<u, v>>)
          /\ graph' = add_edge(graph, u, v)
    /\ UNCHANGED <<tasks, result, serviceVars>>

analysis_result(critical_path) ==
    [call |-> "analysis",
     execution_order |-> calculate_execution_order(graph),
     critical_path |-> critical_path,
     parallelization |-> find_parallelization_opportunities(graph),
     total_duration |->
         IF critical_path.raised = "none"
         THEN Returned(calculate_total_duration(tasks, critical_path.value))
         ELSE critical_path]

\* the analysis calls of generate_dag applied to the caller's graph
Analyse ==
    /\ result.call = "none"
    /\ tasks # <<>>
    /\ result' = analysis_result(calculate_critical_path(graph, tasks))
    /\ UNCHANGED <<graph, tasks, serviceVars>>

GenerateDagResult(plan_type, analysis, plan) ==
    /\ result' = [call |-> "generate_dag", analysis |-> analysis,
                  plan_type |-> plan_type, plan |-> plan]
    /\ graph' = IF plan.raised = "none" THEN plan.value.graph ELSE graph
    /\ tasks' = IF plan.raised = "none" THEN plan.value.tasks ELSE tasks

GenerateDagFor(plan_type, analysis) ==
    GenerateDagResult(plan_type, analysis, generate_dag(analysis, plan_type, "app", 1))

GenerateDag ==
    /\ result.call = "none"
    /\ tasks = <<>>
    /\ \E plan_type \in PlanTypes, task_types \in DetectableTaskTypes,
          complexity \in ComplexityInputs :
          GenerateDagFor(plan_type, [task_types |-> task_types, complexity |-> complexity])
    /\ UNCHANGED serviceVars

MaxPathLen == 2

\* the id lists a caller can pass as critical_path: up to MaxPathLen ids,
\* ids of tasks or not
PathInputs ==
    UNION {[1..n -> {NodeId(i) : i \in 1..MaxNodes}] : n \in 0..MaxPathLen}

\* calculate_total_duration(tasks, critical_path) on the caller's tasks
CalculateTotalDuration ==
    /\ result.call = "none"
    /\ \E critical_path \in PathInputs :
          result' = [call |-> "total_duration",
                     critical_path |-> critical_path,
                     total_duration |->
                         calculate_total_duration(tasks, critical_path)]
    /\ UNCHANGED <<graph, tasks, serviceVars>>

MaxTypedTasks == 3

\* task types a caller gives its tasks: the three the heuristics of
\* establish_dependencies name and one they do not
TaskTypeInputs == {"analysis", "design", "development", "content"}

EstablishResult(given, built) ==
    /\ result' = [call |-> "establish_dependencies",
                  given |-> given,
                  built |-> built,
                  plan |-> analyse_built(built, "task_sequence", "app", 1)]
    /\ tasks' = built.tasks
    /\ graph' = built.graph

EstablishFor(given) ==
    EstablishResult(given,
        establish_dependencies(given, add_nodes_from(EmptyGraph, task_ids(given))))

\* generate_dag from the point where the task list exists, for a task list
\* of the caller: the nodes are added, establish_dependencies runs, the
\* schedule is analysed
EstablishDependencies ==
    /\ result.call = "none"
    /\ tasks = <<>>
    /\ \E n \in 1..MaxTypedTasks :
       \E types \in [1..n -> TaskTypeInputs] :
          EstablishFor([i \in 1..n |->
                          TaskNode(NodeId(i), "Task", types[i], <<>>, 1,
                                   map_task_type_to_team(types[i]), 1)])
    /\ UNCHANGED serviceVars

GraphNext ==
    \/ NewTasks
    \/ AddEdge
    \/ Analyse
    \/ GenerateDag
    \/ CalculateTotalDuration
    \/ EstablishDependencies

-----------------------------------------------------------------------------
(* Reference notions the properties are stated with *)

NodeSet(G) == Range(G.nodes)

EdgeSet(G) == Range(G.edges)

\* nodes reachable from u along one or more edges
RECURSIVE ReachFrom(_, _, _)
ReachFrom(G, frontier, seen) ==
    LET next == {e[2] : e \in {x \in EdgeSet(G) : x[1] \in frontier}} \ seen
    IN  IF next = {} THEN seen ELSE ReachFrom(G, next, seen \cup next)

HasCycle(G) == \E n \in NodeSet(G) : n \in ReachFrom(G, {n}, {})

Duration(ts, id) == task_of(ts, id).estimated_duration

\* largest duration sum of a path that starts at n (acyclic graphs)
RECURSIVE LongestFrom(_, _, _)
LongestFrom(G, ts, n) ==
    LET succs == {e[2] : e \in {x \in EdgeSet(G) : x[1] = n}}
    IN  Duration(ts, n)
          + (IF succs = {} THEN 0 ELSE SetMax({LongestFrom(G, ts, m) : m \in succs}))

Sources(G) == {n \in NodeSet(G) : \A e \in EdgeSet(G) : e[2] # n}

\* maximum over all source-to-sink paths of the sum of node durations
MaxPathDuration(G, ts) == SetMax({LongestFrom(G, ts, n) : n \in Sources(G)})

PathDuration(ts, path) == SumSeq([i \in 1..Len(path) |-> Duration(ts, path[i])])

\* level of a task id in an execution order (0 when absent)
LevelOf(order, id) ==
    IF \E l \in 1..Len(order) : Contains(order[l], id)
    THEN CHOOSE l \in 1..Len(order) : Contains(order[l], id)
    ELSE 0

-----------------------------------------------------------------------------
(* The database.  A table is the sequence of its rows in insertion order, a  *)
(* row maps the columns that were given a value to that value.  Values are   *)
(* tagged with their Python type; timestamps (NOW()) are left out.           *)

Str(s) == <<"str", s>>

Num(n) == <<"int", n>>

Float(n) == <<"float", n>>

Text(tokens) == <<"text", tokens>>

\* json.dumps(x)
Json(x) == <<"json", x>>

\* f"{n} seconds"
Seconds(n) == <<"seconds", n>>

\* text[:50] + "..."
NameLen == 50

short_name(text) == Text(SubSeq(text, 1, Min2(NameLen, Len(text))) \o <<"...">>)

IndexOf(s, x) == CHOOSE i \in 1..Len(s) : s[i] = x

RowWith(table, column, value) ==
    {r \in 1..Len(table) : column \in DOMAIN table[r] /\ table[r][column] = value}

\* The dynamic upsert of update_plan_read_model and update_read_model_task:
\*     values = [updates' values ...] + [id, tenant_id, app_id]
\*     INSERT INTO t (key columns, updates' keys) VALUES ($1 .. $n)
\*     ON CONFLICT (key_columns[0]) DO UPDATE SET key_i = $i
\* executed with *values: parameter $i is values[i-1], so the key columns
\* receive the first three update values and the conflict target is $1.
dynamic_upsert(table, key_columns, id, tenant_id, app_id, updates) ==
    LET keys == [i \in 1..Len(updates) |-> updates[i][1]]
        values == [i \in 1..Len(updates) |-> updates[i][2]] \o <<id, tenant_id, app_id>>
        columns == key_columns \o keys
        inserted == [col \in Range(columns) |-> values[IndexOf(columns, col)]]
        conflicts == RowWith(table, key_columns[1], values[1])
    IN  IF conflicts = {}
        THEN Append(table, inserted)
        ELSE [r \in 1..Len(table) |->
                 IF r \in conflicts
                 THEN [col \in DOMAIN table[r] \cup Range(keys) |->
                          IF col \in Range(keys) THEN values[IndexOf(keys, col)]
                          ELSE table[r][col]]
                 ELSE table[r]]

\* EventManager.store_event: one INSERT, the event id is a fresh uuid
event_row(log, tenant_id, app_id, event_type, event_data, aggregate_type, aggregate_id, causation_id, correlation_id) ==
    [event_id |-> Uuid(0, Len(log) + 1),
     tenant_id |-> tenant_id, app_id |-> app_id, event_type |-> event_type,
     event_data |-> Json(event_data), aggregate_type |-> aggregate_type,
     aggregate_id |-> aggregate_id, causation_id |-> causation_id,
     correlation_id |-> correlation_id]

\* a variant of store_event that keeps one event per tenant, application and
\* event type (INSERT ... ON CONFLICT DO UPDATE): a later event of the type
\* takes the place of the earlier one
store_event_keyed(log, tenant_id, app_id, event_type, event_data, aggregate_type, aggregate_id, causation_id, correlation_id) ==
    LET row == event_row(log, tenant_id, app_id, event_type, event_data,
                         aggregate_type, aggregate_id, causation_id, correlation_id)
        same == {i \in 1..Len(log) : /\ log[i].tenant_id = tenant_id
                                      /\ log[i].app_id = app_id
                                      /\ log[i].event_type = event_type}
    IN  IF same = {} THEN Append(log, row)
        ELSE [i \in 1..Len(log) |-> IF i \in same THEN row ELSE log[i]]

store_event(log, tenant_id, app_id, event_type, event_data, aggregate_type, aggregate_id, causation_id, correlation_id) ==
    Append(log, event_row(log, tenant_id, app_id, event_type, event_data,
                          aggregate_type, aggregate_id, causation_id,
                          correlation_id))

\* planner EventManager.update_plan_read_model
update_plan_read_model(table, plan_id, tenant_id, app_id, updates) ==
    dynamic_upsert(table, <<"plan_id", "tenant_id", "app_id">>,
                   plan_id, tenant_id, app_id, updates)

\* orchestrator EventManager.update_read_model_task
update_read_model_task(table, task_id, tenant_id, app_id, updates) ==
    dynamic_upsert(table, <<"task_id", "tenant_id", "app_id">>,
                   task_id, tenant_id, app_id, updates)

\* one statement of planner EventManager.create_task_read_models
task_row_upsert(table, task, tenant_id, app_id, plan_id) ==
    LET conflicts == RowWith(table, "task_id", task.task_id)
    IN  IF conflicts = {}
        THEN Append(table,
                 [task_id |-> task.task_id, tenant_id |-> tenant_id,
                  app_id |-> app_id, task_name |-> Str(task.task_name),
                  task_type |-> Str(task.task_type), task_status |-> Str("pending"),
                  task_priority |-> Num(task.priority), parent_plan_id |-> plan_id,
                  assigned_team |-> Str(task.assigned_team),
                  estimated_duration |-> Seconds(task.estimated_duration)])
        ELSE [r \in 1..Len(table) |->
                 IF r \in conflicts
                 THEN [col \in DOMAIN table[r] \cup
                               {"task_name", "task_type", "assigned_team",
                                "estimated_duration"} |->
                          CASE col = "task_name" -> Str(task.task_name)
                            [] col = "task_type" -> Str(task.task_type)
                            [] col = "assigned_team" -> Str(task.assigned_team)
                            [] col = "estimated_duration" ->
                                   Seconds(task.estimated_duration)
                            [] OTHER -> table[r][col]]
                 ELSE table[r]]

\* create_task_read_models stopped after the first k tasks (k = Len(ts) when
\* every statement succeeded)
RECURSIVE create_task_read_models(_, _, _, _, _, _)
create_task_read_models(table, ts, k, tenant_id, app_id, plan_id) ==
    IF k = 0 THEN table
    ELSE task_row_upsert(
             create_task_read_models(table, ts, k - 1, tenant_id, app_id, plan_id),
             ts[k], tenant_id, app_id, plan_id)

-----------------------------------------------------------------------------
(* PlannerService *)

\* requests of every kind (calls, webhooks, queued submissions) in one run
MaxRequests == 2

MaxPlanCalls == 2

Submitted == Len(plan_calls) + Len(orch_calls) + Len(hook_calls) + Len(acks)

MaxPlanQueued == 2

PlannerWorkers == 3

Objectives == {<<>>, <<"simple", "design">>}

RequestPlanIds == {Str("p1")}

PlanRequests ==
    [plan_id : RequestPlanIds, tenant_id : {"t1"}, app_id : {"nwc"},
     objective : Objectives, plan_type : PlanTypes, context : {"ctx"}]

\* the methods class PlannerService defines
PlannerServiceMethods ==
    {"__init__", "initialize", "process_planning_queue", "create_plan",
     "get_plan_details"}

\* an await on the database either completes or raises
DbOutcomes == {"ok", "PostgresError"}

Step(op, type, at) == [op |-> op, type |-> type, at |-> at]

NewPlanCall(request) ==
    [request |-> request, pc |-> "store_started", error |-> "none", done |-> <<>>,
     dag_plan |-> NULL]

\* steps 2.-4. of create_plan for invocation c: analyze_objective,
\* generate_dag, then the tenant is filled in
with_tenant(generated, tenant_id) ==
    IF generated.raised # "none" THEN generated
    ELSE Returned([generated.value EXCEPT !.tenant_id = tenant_id])

plan_for(request, c) ==
    with_tenant(generate_dag(analyze_objective(request.objective),
                             request.plan_type, request.app_id, c),
                request.tenant_id)

\* plan_for tabulated over the requests and invocations of a run (the
\* function is pure, the table is computed once)
RECURSIVE Tabulate(_)
Tabulate(S) ==
    IF S = {} THEN <<>>
    ELSE LET x == CHOOSE y \in S : TRUE
         IN  (x :> plan_for(x[1], x[2])) @@ Tabulate(S \ {x})

PlanTable == Tabulate(PlanRequests \X (1..MaxRequests))

\* the local variable dag_plan of invocation c
dag_plan(c) == plan_calls[c].dag_plan

PlanStep(c, pc, done) ==
    plan_calls' = [plan_calls EXCEPT ![c].pc = pc,
                                     ![c].done = plan_calls[c].done \o done]

PlanRaise(c, exc) ==
    plan_calls' = [plan_calls EXCEPT ![c].pc = "except", ![c].error = exc]

\* POST /plan/create: create_plan is entered; nothing is checked before the
\* first store_event
CreatePlan ==
    /\ Submitted < MaxRequests
    /\ Len(plan_calls) < MaxPlanCalls
    /\ \E request \in PlanRequests :
          plan_calls' = Append(plan_calls, NewPlanCall(request))
    /\ UNCHANGED <<graphVars, event_store, plan_read_model, task_read_model,
                   planning_queue, request_queue, orch_calls, hook_calls,
                   workers, acks, background>>

\* a variant of PlanGenerated that goes on to the PlanCreated append at once,
\* before the rows are upserted
PlanGeneratedAppendsFirst(c, generated) ==
    plan_calls' =
        [plan_calls EXCEPT
           ![c].pc = IF generated.raised = "none" THEN "store_created" ELSE "except",
           ![c].error = IF generated.raised = "none" THEN @ ELSE generated.raised,
           ![c].dag_plan = IF generated.raised = "none" THEN generated.value ELSE @,
           ![c].done = @ \o <<Step("event", "PlanCreationStarted",
                                   Len(event_store) + 1)>>]

\* dag_plan = generate_dag(...) returned, or raised into the except block
PlanGenerated(c, generated) ==
    plan_calls' =
        [plan_calls EXCEPT
           ![c].pc = IF generated.raised = "none" THEN "upsert_plan" ELSE "except",
           ![c].error = IF generated.raised = "none" THEN @ ELSE generated.raised,
           ![c].dag_plan = IF generated.raised = "none" THEN generated.value ELSE @,
           ![c].done = @ \o <<Step("event", "PlanCreationStarted",
                                   Len(event_store) + 1)>>]

\* 1. store_event("PlanCreationStarted"); 2.-4. analysis and generate_dag run
\* without suspension up to the next await
PlanStoreStarted(c) ==
    /\ plan_calls[c].pc = "store_started"
    /\ LET request == plan_calls[c].request
       IN  \E db \in DbOutcomes :
             IF db = "ok"
             THEN /\ event_store' =
                        store_event(event_store, request.tenant_id, request.app_id,
                            "PlanCreationStarted",
                            [objective |-> request.objective,
                             plan_type |-> request.plan_type,
                             context |-> request.context],
                            Str("Plan"), NULL, NULL, NULL)
                  /\ PlanGenerated(c, PlanTable[<<request, c>>])
             ELSE /\ PlanRaise(c, db)
                  /\ UNCHANGED event_store
    /\ UNCHANGED <<graphVars, plan_read_model, task_read_model, planning_queue,
                   request_queue, orch_calls, hook_calls, workers, acks, background>>

\* 5. update_plan_read_model(dag_plan.plan_id, ...)
PlanUpsertPlan(c) ==
    /\ plan_calls[c].pc = "upsert_plan"
    /\ LET request == plan_calls[c].request
           plan == dag_plan(c)
       IN  \E db \in DbOutcomes :
             IF db = "ok"
             THEN /\ plan_read_model' =
                        update_plan_read_model(plan_read_model, plan.plan_id,
                            Str(request.tenant_id), Str(request.app_id),
                            << <<"plan_name", short_name(request.objective)>>,
                               <<"plan_type", Str(request.plan_type)>>,
                               <<"plan_status", Str("active")>>,
                               <<"objective", Text(request.objective)>>,
                               <<"context", Json(request.context)>>,
                               <<"total_tasks", Num(Len(plan.tasks))>>,
                               <<"progress_percentage", Float(0)>> >>)
                  /\ PlanStep(c, "upsert_tasks", <<Step("upsert", "plan", 0)>>)
             ELSE /\ PlanRaise(c, db)
                  /\ UNCHANGED plan_read_model
    /\ UNCHANGED <<graphVars, event_store, task_read_model, planning_queue,
                   request_queue, orch_calls, hook_calls, workers, acks, background>>

\* a variant of step 6. that swallows the error of a task statement and
\* goes on to the PlanCreated event with the rows written so far
PlanUpsertTasksLenient(c) ==
    /\ plan_calls[c].pc = "upsert_tasks"
    /\ LET request == plan_calls[c].request
           plan == dag_plan(c)
       IN  \E k \in 0..Len(plan.tasks) :
             /\ task_read_model' =
                    create_task_read_models(task_read_model, plan.tasks, k,
                        Str(request.tenant_id), Str(request.app_id), plan.plan_id)
             /\ PlanStep(c, "store_created", <<Step("upsert", "tasks", k)>>)
    /\ UNCHANGED <<graphVars, event_store, plan_read_model, planning_queue,
                   request_queue, orch_calls, hook_calls, workers, acks, background>>

\* 6. create_task_read_models: one statement per task; a statement that
\* raises leaves the rows of the tasks before it
PlanUpsertTasks(c) ==
    /\ plan_calls[c].pc = "upsert_tasks"
    /\ LET request == plan_calls[c].request
           plan == dag_plan(c)
       IN  \E k \in 0..Len(plan.tasks) :
             /\ task_read_model' =
                    create_task_read_models(task_read_model, plan.tasks, k,
                        Str(request.tenant_id), Str(request.app_id), plan.plan_id)
             /\ IF k = Len(plan.tasks)
                THEN PlanStep(c, "store_created", <<Step("upsert", "tasks", k)>>)
                ELSE plan_calls' =
                       [plan_calls EXCEPT
                          ![c].pc = "except", ![c].error = "PostgresError",
                          ![c].done = @ \o <<Step("upsert", "tasks", k)>>]
    /\ UNCHANGED <<graphVars, event_store, plan_read_model, planning_queue,
                   request_queue, orch_calls, hook_calls, workers, acks, background>>

\* a variant of steps 7. and 8. in which building the response raises after
\* the PlanCreated event was appended
PlanStoreCreatedThenRaises(c) ==
    /\ plan_calls[c].pc = "store_created"
    /\ LET request == plan_calls[c].request
           plan == dag_plan(c)
       IN  /\ event_store' =
                 store_event(event_store, request.tenant_id, request.app_id,
                     "PlanCreated", [plan_id |-> plan.plan_id],
                     Str("Plan"), plan.plan_id, NULL, NULL)
           /\ plan_calls' =
                 [plan_calls EXCEPT
                    ![c].pc = "except", ![c].error = "ValidationError",
                    ![c].done = @ \o <<Step("event", "PlanCreated",
                                            Len(event_store) + 1)>>]
    /\ UNCHANGED <<graphVars, plan_read_model, task_read_model, planning_queue,
                   request_queue, orch_calls, hook_calls, workers, acks, background>>

\* 7. store_event("PlanCreated"); 8. the response is built and returned
PlanStoreCreated(c) ==
    /\ plan_calls[c].pc = "store_created"
    /\ LET request == plan_calls[c].request
           plan == dag_plan(c)
       IN  \E db \in DbOutcomes :
             IF db = "ok"
             THEN /\ event_store' =
                        store_event(event_store, request.tenant_id, request.app_id,
                            "PlanCreated",
                            [plan_id |-> plan.plan_id,
                             total_tasks |-> Len(plan.tasks),
                             total_duration |-> plan.total_estimated_duration,
                             execution_levels |-> Len(plan.execution_order),
                             dag_structure |->
                                 [tasks |-> Len(plan.tasks),
                                  dependencies |->
                                      SumSeq([i \in 1..Len(plan.dependencies) |->
                                                 Len(plan.dependencies[i])]),
                                  parallel_groups |->
                                      Len(plan.parallelization_opportunities)]],
                            Str("Plan"), plan.plan_id, NULL, NULL)
                  /\ PlanStep(c, "returned",
                         <<Step("event", "PlanCreated", Len(event_store) + 1)>>)
             ELSE /\ PlanRaise(c, db)
                  /\ UNCHANGED event_store
    /\ UNCHANGED <<graphVars, plan_read_model, task_read_model, planning_queue,
                   request_queue, orch_calls, hook_calls, workers, acks, background>>

\* a variant of the except block that raises the HTTPException without
\* storing the PlanCreationFailed event
PlanExceptWithoutEvent(c) ==
    /\ plan_calls[c].pc = "except"
    /\ plan_calls' = [plan_calls EXCEPT ![c].pc = "failed"]
    /\ UNCHANGED <<graphVars, event_store, plan_read_model, task_read_model,
                   planning_queue, request_queue, orch_calls, hook_calls, workers,
                   acks, background>>

\* except Exception: store_event("PlanCreationFailed") and raise HTTPException;
\* when this store_event raises, its exception leaves create_plan instead
PlanExcept(c) ==
    /\ plan_calls[c].pc = "except"
    /\ LET request == plan_calls[c].request
       IN  \E db \in DbOutcomes :
             IF db = "ok"
             THEN /\ event_store' =
                        store_event(event_store, request.tenant_id, request.app_id,
                            "PlanCreationFailed",
                            [objective |-> request.objective,
                             error |-> plan_calls[c].error],
                            Str("Plan"), NULL, NULL, NULL)
                  /\ PlanStep(c, "failed",
                         <<Step("event", "PlanCreationFailed", Len(event_store) + 1)>>)
             ELSE /\ plan_calls' = [plan_calls EXCEPT ![c].pc = "raised",
                                                      ![c].error = db]
                  /\ UNCHANGED event_store
    /\ UNCHANGED <<graphVars, plan_read_model, task_read_model, planning_queue,
                   request_queue, orch_calls, hook_calls, workers, acks, background>>

\* the PlanningResponse a returned invocation answered with
PlanningResponse(c) ==
    LET plan == dag_plan(c)
    IN  [plan_id |-> plan.plan_id,
         status |-> "created",
         total_tasks |-> Len(plan.tasks),
         estimated_total_duration |-> plan.total_estimated_duration,
         parallel_execution_groups |-> Len(plan.execution_order),
         created_tasks |-> plan.tasks,
         optimization_summary |->
             [critical_path_length |-> Len(plan.critical_path),
              parallelization_opportunities |-> Len(plan.parallelization_opportunities),
              risk_factors |-> Len(plan.risk_factors),
              optimization_suggestions |-> Len(plan.optimization_suggestions)]]

\* asyncio.Queue(): maxsize 0, put never waits and never raises QueueFull
EmptyQueue == [items |-> <<>>, unfinished_tasks |-> 0]

queue_put(q, item) ==
    [items |-> Append(q.items, item), unfinished_tasks |-> q.unfinished_tasks + 1]

queue_get(q) == [q EXCEPT !.items = Tail(@)]

\* a worker path that leaves out task_done()
task_done_left_out(q) == q

task_done(q) == [q EXCEPT !.unfinished_tasks = @ - 1]

\* POST /plan/create/async
CreatePlanAsync ==
    /\ Submitted < MaxRequests
    /\ Cardinality({a \in 1..Len(acks) : acks[a].service = "planner"}) < MaxPlanQueued
    /\ \E request \in PlanRequests :
          /\ planning_queue' = queue_put(planning_queue, request)
          /\ acks' = Append(acks, [service |-> "planner", request |-> request,
                                   status |-> "queued"])
    /\ UNCHANGED <<graphVars, event_store, plan_read_model, task_read_model,
                   request_queue, plan_calls, orch_calls, hook_calls, workers,
                   background>>

\* one iteration of process_planning_queue: get, then the call of
\* self.process_plan_request, which PlannerService does not define; the
\* AttributeError is caught by `except Exception`, logged, and task_done runs
ProcessPlanningQueue(w) ==
    /\ workers.planner[w] = "waiting"
    /\ planning_queue.items # <<>>
    /\ LET request == Head(planning_queue.items)
       IN  IF "process_plan_request" \in PlannerServiceMethods
           THEN /\ workers' = [workers EXCEPT !.planner[w] = "processing"]
                /\ planning_queue' = queue_get(planning_queue)
           ELSE /\ workers' = [workers EXCEPT
                                 !.handled = Append(@, [service |-> "planner",
                                                        request |-> request,
                                                        error |-> "AttributeError"])]
                /\ planning_queue' = task_done(queue_get(planning_queue))
    /\ UNCHANGED <<graphVars, event_store, plan_read_model, task_read_model,
                   request_queue, plan_calls, orch_calls, hook_calls, acks,
                   background>>

-----------------------------------------------------------------------------
(* orchestrator: PlanningManager and the static tables of OrchestratorService *)

team_mapping ==
    << <<{"code_generation", "software_development", "api_development",
          "backend_development", "frontend_development", "fullstack_development",
          "database_design", "architecture_design"}, "code_generation">>,
       <<{"testing", "quality_assurance", "test_automation", "performance_testing",
          "security_testing", "integration_testing", "e2e_testing", "unit_testing",
          "code_review", "bug_detection"}, "testing_qa">>,
       <<{"context_analysis", "context_organization", "context_audit",
          "data_consistency", "context_dependencies", "knowledge_organization"},
         "context_management">>,
       <<{"web_research", "data_mining", "academic_research", "market_research",
          "competitor_analysis", "trend_analysis", "information_gathering",
          "data_analysis"}, "research">>,
       <<{"incident_management", "auto_repair", "health_monitoring",
          "service_recovery", "auto_scaling", "troubleshooting",
          "system_maintenance"}, "support_self_repair">>,
       <<{"dynamic_routing", "message_mediation", "priority_management",
          "back_pressure", "event_aggregation", "communication_audit",
          "inter_agent_communication"}, "notifications_communication">>,
       <<{"computer_vision", "image_analysis"}, "vision_computational">>,
       <<{"design_generation", "brand_development"}, "creative_design">>,
       <<{"workflow_automation", "process_optimization"}, "business_automation">>,
       <<{"medical_diagnosis", "clinical_reasoning"}, "healthcare_specialists">>,
       <<{"content_creation", "social_media"}, "marketing_creatives">> >>

in_team_mapping(capability) ==
    \E i \in 1..Len(team_mapping) : capability \in team_mapping[i][1]

team_mapping_get(capability) ==
    team_mapping[CHOOSE i \in 1..Len(team_mapping) :
                     capability \in team_mapping[i][1]][2]

\* a variant of determine_best_team that reads the event log: a team that
\* already has an assignment is passed over for the default team
determine_best_team_by_load(task_type, app_type, capabilities_needed) ==
    IF \E e \in 1..Len(event_store) : event_store[e].event_type = "TaskAssigned"
    THEN "business_automation"
    ELSE LET known == SelectSeq(capabilities_needed, in_team_mapping)
         IN  IF known # <<>> THEN team_mapping_get(known[1])
             ELSE IF app_type = "computer_vision" THEN "vision_computational"
             ELSE "business_automation"

\* a variant of determine_best_team that asks the app_type table first and
\* the capabilities only when the application type is not in it
determine_best_team_by_app(task_type, app_type, capabilities_needed) ==
    LET known == SelectSeq(capabilities_needed, in_team_mapping)
    IN  IF app_type \in {"code_generation", "software_development", "fullstack"}
        THEN "code_generation"
        ELSE IF app_type \in {"testing", "qa", "quality_assurance"} THEN "testing_qa"
        ELSE IF app_type = "computer_vision" THEN "vision_computational"
        ELSE IF app_type = "design_generation" THEN "creative_design"
        ELSE IF app_type = "workflow_automation" THEN "business_automation"
        ELSE IF app_type = "medical_ai" THEN "healthcare_specialists"
        ELSE IF app_type = "branding_ai" THEN "marketing_creatives"
        ELSE IF known # <<>> THEN team_mapping_get(known[1])
        ELSE "business_automation"

determine_best_team(task_type, app_type, capabilities_needed) ==
    LET known == SelectSeq(capabilities_needed, in_team_mapping)
    IN  IF known # <<>> THEN team_mapping_get(known[1])
        ELSE IF app_type \in {"code_generation", "software_development", "fullstack"}
             THEN "code_generation"
        ELSE IF app_type \in {"testing", "qa", "quality_assurance"} THEN "testing_qa"
        ELSE IF app_type = "computer_vision" THEN "vision_computational"
        ELSE IF app_type = "design_generation" THEN "creative_design"
        ELSE IF app_type = "workflow_automation" THEN "business_automation"
        ELSE IF app_type = "medical_ai" THEN "healthcare_specialists"
        ELSE IF app_type = "branding_ai" THEN "marketing_creatives"
        ELSE "business_automation"

\* team_capabilities[team]["response_time"], 60 for a team the table lacks
response_time(team_name) ==
    CASE team_name = "vision_computational" -> 30
      [] team_name = "creative_design" -> 45
      [] team_name = "business_automation" -> 60
      [] team_name = "healthcare_specialists" -> 90
      [] team_name = "marketing_creatives" -> 40
      [] OTHER -> 60

\* a variant of estimate_duration that slows the urgent priorities down and
\* speeds the others up
estimate_duration_urgent_slower(team_name, task_type, priority) ==
    LET base_duration == response_time(team_name)
        duration == IF priority <= 2 THEN int_times(base_duration, 12)
                    ELSE IF priority <= 5 THEN int_times(base_duration, 9)
                    ELSE int_times(base_duration, 7)
    IN  Max2(duration, 10)

estimate_duration(team_name, task_type, priority) ==
    LET base_duration == response_time(team_name)
        duration == IF priority <= 2 THEN int_times(base_duration, 7)
                    ELSE IF priority <= 5 THEN int_times(base_duration, 9)
                    ELSE int_times(base_duration, 12)
    IN  Max2(duration, 10)

get_app_type(app_id) ==
    CASE app_id = "iris" -> "computer_vision"
      [] app_id = "silhouette" -> "design_generation"
      [] app_id = "nwc" -> "workflow_automation"
      [] app_id = "medluxe" -> "medical_ai"
      [] app_id = "brandistry" -> "branding_ai"
      [] OTHER -> "general"

extract_capabilities(task_type) ==
    CASE task_type = "image_analysis" -> <<"computer_vision", "image_analysis">>
      [] task_type = "visual_reasoning" -> <<"computer_vision", "visual_reasoning">>
      [] task_type = "design_generation" -> <<"design_generation", "creative_writing">>
      [] task_type = "brand_development" -> <<"brand_development", "visual_design">>
      [] task_type = "workflow_creation" ->
             <<"workflow_automation", "process_optimization">>
      [] task_type = "data_analysis" -> <<"data_analysis", "business_intelligence">>
      [] task_type = "medical_diagnosis" -> <<"medical_diagnosis", "clinical_reasoning">>
      [] task_type = "content_creation" -> <<"content_creation", "social_media">>
      [] OTHER -> <<task_type>>

\* PromptEngineerClient.process_request: what comes back for each outcome of
\* the HTTP call; nothing is raised to the caller
PromptEngineerOutcomes == {"200", "non200", "exception"}

\* a variant of process_request whose error answers carry no prompt
process_request_without_prompt(original_objective, outcome) ==
    CASE outcome = "200" ->
             [status |-> "success", refined_prompt |-> <<"refined">> \o original_objective]
      [] outcome = "non200" ->
             [status |-> "error", refined_prompt |-> <<>>]
      [] OTHER ->
             [status |-> "fallback", refined_prompt |-> <<>>]

process_request(original_objective, outcome) ==
    CASE outcome = "200" ->
             [status |-> "success", refined_prompt |-> <<"refined">> \o original_objective]
      [] outcome = "non200" ->
             [status |-> "error", refined_prompt |-> original_objective]
      [] OTHER ->
             [status |-> "fallback", refined_prompt |-> original_objective]

-----------------------------------------------------------------------------
(* OrchestratorService *)

MaxOrchCalls == 2

MaxOrchQueued == 2

MaxHookCalls == 2

OrchestratorWorkers == 5

OrchRequests ==
    [request_id : {"r1"}, app_id : {"iris"}, tenant_id : {"t1"},
     objective : {<<"design">>}, task_type : {"image_analysis", "translation"},
     priority : {1}, callback_url : {NULL, Str("http://caller/cb")}]

\* the methods class OrchestratorService defines
OrchestratorServiceMethods ==
    {"__init__", "initialize", "process_request_queue", "orchestrate_request",
     "get_app_type", "extract_capabilities", "get_next_steps", "schedule_callback"}

NewOrchCall(request) ==
    [request |-> request, pc |-> "store_started", error |-> "none", done |-> <<>>,
     task_id |-> NULL, prompt_response |-> NULL]

assigned_team(request) ==
    determine_best_team(request.task_type, get_app_type(request.app_id),
                        extract_capabilities(request.task_type))

estimated_duration(request) ==
    estimate_duration(assigned_team(request), request.task_type, request.priority)

OrchStep(c, pc, done) ==
    orch_calls' = [orch_calls EXCEPT ![c].pc = pc,
                                     ![c].done = orch_calls[c].done \o done]

OrchRaise(c, exc) ==
    orch_calls' = [orch_calls EXCEPT ![c].pc = "except", ![c].error = exc]

\* POST /orchestrate
Orchestrate ==
    /\ Submitted < MaxRequests
    /\ Len(orch_calls) < MaxOrchCalls
    /\ \E request \in OrchRequests :
          orch_calls' = Append(orch_calls, NewOrchCall(request))
    /\ UNCHANGED <<graphVars, event_store, plan_read_model, task_read_model,
                   planning_queue, request_queue, plan_calls, hook_calls,
                   workers, acks, background>>

\* 1. store_event("OrchestrationStarted"); 2. task_id = uuid4()
OrchStoreStarted(c) ==
    /\ orch_calls[c].pc = "store_started"
    /\ LET request == orch_calls[c].request
       IN  \E db \in DbOutcomes :
             IF db = "ok"
             THEN /\ event_store' =
                        store_event(event_store, request.tenant_id, request.app_id,
                            "OrchestrationStarted",
                            [request_id |-> request.request_id,
                             objective |-> request.objective,
                             task_type |-> request.task_type,
                             priority |-> request.priority],
                            NULL, NULL, NULL, NULL)
                  /\ orch_calls' =
                        [orch_calls EXCEPT
                           ![c].pc = "upsert_processing",
                           ![c].task_id = Uuid(0 - c, 1),
                           ![c].done = @ \o <<Step("event", "OrchestrationStarted",
                                                   Len(event_store) + 1)>>]
             ELSE /\ OrchRaise(c, db)
                  /\ UNCHANGED event_store
    /\ UNCHANGED <<graphVars, plan_read_model, task_read_model, planning_queue,
                   request_queue, plan_calls, hook_calls, workers, acks, background>>

\* 2. update_read_model_task(task_id, ..., status "processing")
OrchUpsertProcessing(c) ==
    /\ orch_calls[c].pc = "upsert_processing"
    /\ LET request == orch_calls[c].request
       IN  \E db \in DbOutcomes :
             IF db = "ok"
             THEN /\ task_read_model' =
                        update_read_model_task(task_read_model, orch_calls[c].task_id,
                            Str(request.tenant_id), Str(request.app_id),
                            << <<"task_name", short_name(request.objective)>>,
                               <<"task_type", Str(request.task_type)>>,
                               <<"task_status", Str("processing")>>,
                               <<"task_priority", Num(request.priority)>> >>)
                  /\ OrchStep(c, "prompt_engineer", <<Step("upsert", "processing", 0)>>)
             ELSE /\ OrchRaise(c, db)
                  /\ UNCHANGED task_read_model
    /\ UNCHANGED <<graphVars, event_store, plan_read_model, planning_queue,
                   request_queue, plan_calls, hook_calls, workers, acks, background>>

\* 3. prompt_engineer.process_request; 4.-5. team and duration follow without
\* suspension
OrchPromptEngineer(c) ==
    /\ orch_calls[c].pc = "prompt_engineer"
    /\ \E outcome \in PromptEngineerOutcomes :
          orch_calls' =
              [orch_calls EXCEPT
                 ![c].pc = "upsert_assigned",
                 ![c].prompt_response =
                     process_request(orch_calls[c].request.objective, outcome),
                 ![c].done = @ \o <<Step("http", outcome, 0)>>]
    /\ UNCHANGED <<graphVars, event_store, plan_read_model, task_read_model,
                   planning_queue, request_queue, plan_calls, hook_calls,
                   workers, acks, background>>

\* 6. update_read_model_task(task_id, ..., status "assigned")
OrchUpsertAssigned(c) ==
    /\ orch_calls[c].pc = "upsert_assigned"
    /\ LET request == orch_calls[c].request
       IN  \E db \in DbOutcomes :
             IF db = "ok"
             THEN /\ task_read_model' =
                        update_read_model_task(task_read_model, orch_calls[c].task_id,
                            Str(request.tenant_id), Str(request.app_id),
                            << <<"assigned_team", Str(assigned_team(request))>>,
                               <<"estimated_duration",
                                 Seconds(estimated_duration(request))>>,
                               <<"task_status", Str("assigned")>> >>)
                  /\ OrchStep(c, "store_assigned", <<Step("upsert", "assigned", 0)>>)
             ELSE /\ OrchRaise(c, db)
                  /\ UNCHANGED task_read_model
    /\ UNCHANGED <<graphVars, event_store, plan_read_model, planning_queue,
                   request_queue, plan_calls, hook_calls, workers, acks, background>>

\* the OrchestrationResponse of step 8
OrchestrationResponse(c) ==
    LET request == orch_calls[c].request
    IN  [request_id |-> request.request_id,
         status |-> "assigned",
         task_id |-> orch_calls[c].task_id,
         assigned_team |-> assigned_team(request),
         estimated_duration |-> estimated_duration(request),
         prompt_engineer_response |-> orch_calls[c].prompt_response]

\* 7. store_event("TaskAssigned"); 8. response; 9. background_tasks.add_task
\* when a callback url was given; return
OrchStoreAssigned(c) ==
    /\ orch_calls[c].pc = "store_assigned"
    /\ LET request == orch_calls[c].request
       IN  \E db \in DbOutcomes :
             IF db = "ok"
             THEN /\ event_store' =
                        store_event(event_store, request.tenant_id, request.app_id,
                            "TaskAssigned",
                            [task_id |-> orch_calls[c].task_id,
                             assigned_team |-> assigned_team(request),
                             estimated_duration |-> estimated_duration(request),
                             prompt_response |-> orch_calls[c].prompt_response],
                            Str("Task"), orch_calls[c].task_id, NULL,
                            Str(request.request_id))
                  /\ OrchStep(c, "returned",
                         <<Step("event", "TaskAssigned", Len(event_store) + 1)>>)
                  /\ background' =
                        IF request.callback_url # NULL
                        THEN Append(background,
                                 [call |-> c, callback_url |-> request.callback_url,
                                  response_data |-> OrchestrationResponse(c),
                                  state |-> "scheduled", attempts |-> 0])
                        ELSE background
             ELSE /\ OrchRaise(c, db)
                  /\ UNCHANGED <<event_store, background>>
    /\ UNCHANGED <<graphVars, plan_read_model, task_read_model, planning_queue,
                   request_queue, plan_calls, hook_calls, workers, acks>>

\* a variant of the except block that answers with the error and appends no
\* event
OrchExceptWithoutEvent(c) ==
    /\ orch_calls[c].pc = "except"
    /\ orch_calls' = [orch_calls EXCEPT ![c].pc = "failed"]
    /\ UNCHANGED <<graphVars, event_store, plan_read_model, task_read_model,
                   planning_queue, request_queue, plan_calls, hook_calls, workers,
                   acks, background>>

\* except Exception: store_event("OrchestrationFailed") and raise HTTPException
OrchExcept(c) ==
    /\ orch_calls[c].pc = "except"
    /\ LET request == orch_calls[c].request
       IN  \E db \in DbOutcomes :
             IF db = "ok"
             THEN /\ event_store' =
                        store_event(event_store, request.tenant_id, request.app_id,
                            "OrchestrationFailed",
                            [request_id |-> request.request_id,
                             error |-> orch_calls[c].error,
                             task_id |-> orch_calls[c].task_id],
                            NULL, NULL, NULL, Str(request.request_id))
                  /\ OrchStep(c, "failed",
                         <<Step("event", "OrchestrationFailed", Len(event_store) + 1)>>)
             ELSE /\ orch_calls' = [orch_calls EXCEPT ![c].pc = "raised",
                                                      ![c].error = db]
                  /\ UNCHANGED event_store
    /\ UNCHANGED <<graphVars, plan_read_model, task_read_model, planning_queue,
                   request_queue, plan_calls, hook_calls, workers, acks, background>>

\* a variant of schedule_callback that posts again after a failed attempt
ScheduleCallbackAgain(b) ==
    /\ background[b].state = "scheduled"
    /\ background[b].attempts < 2
    /\ \E outcome \in {"delivered", "scheduled"} :
          background' = [background EXCEPT ![b].state = outcome,
                                           ![b].attempts = @ + 1]
    /\ UNCHANGED <<graphVars, event_store, plan_read_model, task_read_model,
                   planning_queue, request_queue, plan_calls, orch_calls,
                   hook_calls, workers, acks>>

\* schedule_callback, run by BackgroundTasks after the response: one POST,
\* an exception is logged
ScheduleCallback(b) ==
    /\ background[b].state = "scheduled"
    /\ \E outcome \in {"delivered", "failed"} :
          background' = [background EXCEPT ![b].state = outcome,
                                           ![b].attempts = @ + 1]
    /\ UNCHANGED <<graphVars, event_store, plan_read_model, task_read_model,
                   planning_queue, request_queue, plan_calls, orch_calls,
                   hook_calls, workers, acks>>

\* POST /orchestrate/async
OrchestrateAsync ==
    /\ Submitted < MaxRequests
    /\ Cardinality({a \in 1..Len(acks) : acks[a].service = "orchestrator"})
          < MaxOrchQueued
    /\ \E request \in OrchRequests :
          /\ request_queue' = queue_put(request_queue, request)
          /\ acks' = Append(acks, [service |-> "orchestrator", request |-> request,
                                   status |-> "queued"])
    /\ UNCHANGED <<graphVars, event_store, plan_read_model, task_read_model,
                   planning_queue, plan_calls, orch_calls, hook_calls, workers,
                   background>>

\* one iteration of process_request_queue: get, then the call of
\* self.process_orchestration, which OrchestratorService does not define
ProcessRequestQueue(w) ==
    /\ workers.orchestrator[w] = "waiting"
    /\ request_queue.items # <<>>
    /\ LET request == Head(request_queue.items)
       IN  IF "process_orchestration" \in OrchestratorServiceMethods
           THEN /\ workers' = [workers EXCEPT !.orchestrator[w] = "processing"]
                /\ request_queue' = queue_get(request_queue)
           ELSE /\ workers' = [workers EXCEPT
                                 !.handled = Append(@, [service |-> "orchestrator",
                                                        request |-> request,
                                                        error |-> "AttributeError"])]
                /\ request_queue' = task_done(queue_get(request_queue))
    /\ UNCHANGED <<graphVars, event_store, plan_read_model, task_read_model,
                   planning_queue, plan_calls, orch_calls, hook_calls, acks,
                   background>>

-----------------------------------------------------------------------------
(* Webhooks of the orchestrator *)

\* datetime.utcnow().isoformat()
IsoTime == <<"isoformat">>

HookRequests ==
    [kind : {"task-completed", "task-failed"},
     task_id : {NULL, Uuid(0 - 1, 1)},
     tenant_id : {"t1"}, app_id : {"iris"}, payload : {"payload"}]

\* POST /webhook/task-completed, /webhook/task-failed: without a task_id the
\* handler answers "processed" at once
Webhook ==
    /\ Submitted < MaxRequests
    /\ Len(hook_calls) < MaxHookCalls
    /\ \E task_data \in HookRequests :
          hook_calls' = Append(hook_calls,
              [task_data |-> task_data,
               pc |-> IF task_data.task_id # NULL THEN "upsert" ELSE "returned",
               done |-> <<>>])
    /\ UNCHANGED <<graphVars, event_store, plan_read_model, task_read_model,
                   planning_queue, request_queue, plan_calls, orch_calls,
                   workers, acks, background>>

hook_updates(task_data) ==
    IF task_data.kind = "task-completed"
    THEN << <<"task_status", Str("completed")>>,
            <<"result_data", Str(task_data.payload)>>,
            <<"completed_at", IsoTime>> >>
    ELSE << <<"task_status", Str("failed")>>,
            <<"error_data", Str(task_data.payload)>>,
            <<"failed_at", IsoTime>> >>

hook_event_type(task_data) ==
    IF task_data.kind = "task-completed" THEN "TaskCompleted" ELSE "TaskFailed"

\* update_read_model_task(task_id, ..., status completed / failed); an
\* exception becomes HTTPException 500
WebhookUpsert(h) ==
    /\ hook_calls[h].pc = "upsert"
    /\ LET task_data == hook_calls[h].task_data
       IN  \E db \in DbOutcomes :
             IF db = "ok"
             THEN /\ task_read_model' =
                        update_read_model_task(task_read_model, task_data.task_id,
                            Str(task_data.tenant_id), Str(task_data.app_id),
                            hook_updates(task_data))
                  /\ hook_calls' =
                        [hook_calls EXCEPT
                           ![h].pc = "store",
                           ![h].done = @ \o <<Step("upsert", task_data.kind, 0)>>]
             ELSE /\ hook_calls' = [hook_calls EXCEPT ![h].pc = "failed"]
                  /\ UNCHANGED task_read_model
    /\ UNCHANGED <<graphVars, event_store, plan_read_model, planning_queue,
                   request_queue, plan_calls, orch_calls, workers, acks, background>>

\* store_event("TaskCompleted" / "TaskFailed")
WebhookStore(h) ==
    /\ hook_calls[h].pc = "store"
    /\ LET task_data == hook_calls[h].task_data
       IN  \E db \in DbOutcomes :
             IF db = "ok"
             THEN /\ event_store' =
                        store_event(event_store, task_data.tenant_id, task_data.app_id,
                            hook_event_type(task_data),
                            [task_id |-> task_data.task_id,
                             payload |-> task_data.payload],
                            NULL, NULL, NULL, NULL)
                  /\ hook_calls' =
                        [hook_calls EXCEPT
                           ![h].pc = "returned",
                           ![h].done = @ \o <<Step("event", hook_event_type(task_data),
                                                   Len(event_store) + 1)>>]
             ELSE /\ hook_calls' = [hook_calls EXCEPT ![h].pc = "failed"]
                  /\ UNCHANGED event_store
    /\ UNCHANGED <<graphVars, plan_read_model, task_read_model, planning_queue,
                   request_queue, plan_calls, orch_calls, workers, acks, background>>

-----------------------------------------------------------------------------
(* Specifications *)

ServiceInit ==
    /\ event_store = <<>>
    /\ plan_read_model = <<>>
    /\ task_read_model = <<>>
    /\ planning_queue = EmptyQueue
    /\ request_queue = EmptyQueue
    /\ plan_calls = <<>>
    /\ orch_calls = <<>>
    /\ hook_calls = <<>>
    /\ workers = [planner |-> [w \in 1..PlannerWorkers |-> "waiting"],
                  orchestrator |-> [w \in 1..OrchestratorWorkers |-> "waiting"],
                  handled |-> <<>>]
    /\ acks = <<>>
    /\ background = <<>>

Init == GraphInit /\ ServiceInit

PlannerNext ==
    \/ CreatePlan
    \/ \E c \in 1..Len(plan_calls) : PlanStoreStarted(c)
    \/ \E c \in 1..Len(plan_calls) : PlanUpsertPlan(c)
    \/ \E c \in 1..Len(plan_calls) : PlanUpsertTasks(c)
    \/ \E c \in 1..Len(plan_calls) : PlanStoreCreated(c)
    \/ \E c \in 1..Len(plan_calls) : PlanExcept(c)
    \/ CreatePlanAsync
    \/ \E w \in 1..PlannerWorkers : ProcessPlanningQueue(w)

OrchestratorNext ==
    \/ Orchestrate
    \/ \E c \in 1..Len(orch_calls) : OrchStoreStarted(c)
    \/ \E c \in 1..Len(orch_calls) : OrchUpsertProcessing(c)
    \/ \E c \in 1..Len(orch_calls) : OrchPromptEngineer(c)
    \/ \E c \in 1..Len(orch_calls) : OrchUpsertAssigned(c)
    \/ \E c \in 1..Len(orch_calls) : OrchStoreAssigned(c)
    \/ \E c \in 1..Len(orch_calls) : OrchExcept(c)
    \/ \E b \in 1..Len(background) : ScheduleCallback(b)
    \/ OrchestrateAsync
    \/ \E w \in 1..OrchestratorWorkers : ProcessRequestQueue(w)
    \/ Webhook
    \/ \E h \in 1..Len(hook_calls) : WebhookUpsert(h)
    \/ \E h \in 1..Len(hook_calls) : WebhookStore(h)

Next == PlannerNext \/ OrchestratorNext

Spec == Init /\ [][Next]_vars

\* the schedule analysis on its own
GraphSpec == Init /\ [][GraphNext]_vars

\* the planner service alone; its event loop runs a coroutine that is ready:
\* a step that can be taken is taken at some time
PlannerFairSpec == Init /\ [][PlannerNext]_vars /\ WF_vars(PlannerNext)

-----------------------------------------------------------------------------
(* PlanningManager as a state machine: a caller asks for the team of a task  *)
(* or for the duration estimate of a team.                                   *)

MaxCapabilities == 2

MaxPriority == 10

\* capabilities a caller names: keys of team_mapping of several teams and
\* names the mapping lacks
CapabilityInputs ==
    {"computer_vision", "data_analysis", "unit_testing", "visual_reasoning",
     "creative_writing"}

AppTypeInputs ==
    {"computer_vision", "design_generation", "workflow_automation", "medical_ai",
     "branding_ai", "fullstack", "qa", "general"}

\* the teams of team_capabilities and a team the table lacks
TeamInputs ==
    {"vision_computational", "creative_design", "business_automation",
     "healthcare_specialists", "marketing_creatives", "code_generation"}

DetermineBestTeam ==
    /\ result.call = "none"
    /\ \E n \in 0..MaxCapabilities :
       \E capabilities_needed \in [1..n -> CapabilityInputs], app_type \in AppTypeInputs :
          result' = [call |-> "determine_best_team",
                     app_type |-> app_type,
                     capabilities_needed |-> capabilities_needed,
                     team |-> determine_best_team("task", app_type, capabilities_needed)]
    /\ UNCHANGED <<graph, tasks, serviceVars>>

EstimateDuration ==
    /\ result.call = "none"
    /\ \E team_name \in TeamInputs, priority \in 1..MaxPriority :
          result' = [call |-> "estimate_duration",
                     team_name |-> team_name,
                     priority |-> priority,
                     duration |-> estimate_duration(team_name, "task", priority)]
    /\ UNCHANGED <<graph, tasks, serviceVars>>

PlanningManagerNext == DetermineBestTeam \/ EstimateDuration

PlanningManagerSpec == Init /\ [][PlanningManagerNext]_vars


-----------------------------------------------------------------------------
(* Properties of the schedule analysis (GraphSpec) *)

\* C1: for every plan produced by generate_dag, execution_order contains
\* every task id of the plan exactly once, and every id listed in the
\* dependencies of a task is in a strictly earlier level than the task.
C1_ExecutionOrderRespectsDependencies ==
    (result.call = "generate_dag" /\ result.plan.raised = "none") =>
        LET plan == result.plan.value
            flat == Flatten(plan.execution_order)
        IN  /\ Len(flat) = Len(plan.tasks)
            /\ \A i \in 1..Len(plan.tasks) : Count(flat, plan.tasks[i].task_id) = 1
            /\ \A i \in 1..Len(plan.tasks) :
               \A j \in 1..Len(plan.tasks[i].dependencies) :
                  LevelOf(plan.execution_order, plan.tasks[i].dependencies[j])
                     < LevelOf(plan.execution_order, plan.tasks[i].task_id)

\* C2: for every acyclic task graph with positive durations, the durations
\* along the path calculate_critical_path returns sum to the maximum, over
\* all source-to-sink paths, of the sum of node durations, and the total
\* duration computed from that path is this maximum.
C2_CriticalPathIsLongestDuration ==
    (result.call = "analysis" /\ ~HasCycle(graph)) =>
        /\ result.critical_path.raised = "none"
        /\ PathDuration(tasks, result.critical_path.value)
              = MaxPathDuration(graph, tasks)
        /\ result.total_duration = Returned(MaxPathDuration(graph, tasks))

\* C9: an edge that would close a cycle is rejected when it is inserted, so
\* no graph holds a cycle; were a cyclic graph analysed, the answer would be
\* a dependency-cycle error and never all nodes as one level.
C9_CycleRejectedAtInsertion ==
    /\ ~HasCycle(graph)
    /\ (result.call = "analysis" /\ HasCycle(graph)) =>
          /\ result.execution_order = Raised("DependencyCycleError")
          /\ result.execution_order # Returned(<<graph.nodes>>)

-----------------------------------------------------------------------------
(* Properties of the services (Spec) *)

\* positions in a history `done` of the steps of one kind
StepsOf(done, op, type) ==
    {i \in 1..Len(done) : done[i].op = op /\ done[i].type = type}

\* the events of a type in the log
EventsOfType(type) ==
    {e \in 1..Len(event_store) : event_store[e].event_type = type}

\* the event a step of a history recorded is in the log where it was put
InLog(step) ==
    /\ step.at \in 1..Len(event_store)
    /\ event_store[step.at].event_type = step.type

\* C3: a request taken from planning_queue or request_queue by a worker, and
\* marked done by it, was run through the pipeline: its PlanCreationStarted
\* (OrchestrationStarted) event is in the log.
C3_DequeuedRequestRunsPipeline ==
    \A i \in 1..Len(workers.handled) :
        LET request == workers.handled[i].request
        IN  IF workers.handled[i].service = "planner"
            THEN \E e \in EventsOfType("PlanCreationStarted") :
                    event_store[e].event_data =
                        Json([objective |-> request.objective,
                              plan_type |-> request.plan_type,
                              context |-> request.context])
            ELSE \E e \in EventsOfType("OrchestrationStarted") :
                    event_store[e].event_data =
                        Json([request_id |-> request.request_id,
                              objective |-> request.objective,
                              task_type |-> request.task_type,
                              priority |-> request.priority])

\* C4 as stated: whenever create_plan returns an error after its
\* PlanCreationStarted event was appended, a PlanCreationFailed event of the
\* invocation is in the log.
C4_FailureEventAlwaysAppended ==
    \A c \in 1..Len(plan_calls) :
        LET call == plan_calls[c]
        IN  (/\ call.pc \in {"failed", "raised"}
             /\ StepsOf(call.done, "event", "PlanCreationStarted") # {}) =>
                \E i \in StepsOf(call.done, "event", "PlanCreationFailed") :
                    InLog(call.done[i])

\* C4 amended: when create_plan answers with its HTTP error the
\* PlanCreationFailed event carrying the error is the last thing the
\* invocation appended; an error leaves create_plan without that event only
\* when the append of the PlanCreationFailed event itself raised, and then
\* it is the error of that append.
C4_FailureEventUnlessAppendFails ==
    \A c \in 1..Len(plan_calls) :
        LET call == plan_calls[c]
        IN  /\ call.pc = "failed" =>
                 /\ call.error # "none"
                 /\ call.done # <<>>
                 /\ LET last == call.done[Len(call.done)]
                    IN  /\ last.op = "event"
                        /\ last.type = "PlanCreationFailed"
                        /\ InLog(last)
                        /\ event_store[last.at].event_data =
                              Json([objective |-> call.request.objective,
                                    error |-> call.error])
            /\ call.pc = "raised" =>
                 /\ call.error = "PostgresError"
                 /\ StepsOf(call.done, "event", "PlanCreationFailed") = {}

\* a create_plan failed after its PlanCreationStarted event and the
\* PlanCreationFailed event was appended
C4_FailedAfterStarted ==
    \E c \in 1..Len(plan_calls) :
        /\ plan_calls[c].pc = "failed"
        /\ StepsOf(plan_calls[c].done, "event", "PlanCreationStarted") # {}
        /\ StepsOf(plan_calls[c].done, "upsert", "plan") # {}

\* C5: a create_plan request whose objective is empty writes nothing: no
\* event and no projection row is written for it.
C5_EmptyObjectiveWritesNothing ==
    \A c \in 1..Len(plan_calls) :
        plan_calls[c].request.objective = <<>> => plan_calls[c].done = <<>>

\* C6: after two create_plan requests carrying the same plan_id have both
\* returned their plan, the plan projection holds exactly one row for that
\* plan id.
C6_SamePlanIdOneRow ==
    \A c1, c2 \in 1..Len(plan_calls) :
        (/\ c1 < c2
         /\ plan_calls[c1].request.plan_id = plan_calls[c2].request.plan_id
         /\ plan_calls[c1].pc = "returned"
         /\ plan_calls[c2].pc = "returned") =>
            Cardinality(RowWith(plan_read_model, "plan_id",
                                plan_calls[c1].request.plan_id)) = 1

\* C7 as stated: no plan row is upserted unless the PlanCreated event of its
\* plan is in the log, no assignment row unless the TaskAssigned event of
\* its task is.
C7_NoRowBeforeRecordingEvent ==
    /\ \A c \in 1..Len(plan_calls) :
          StepsOf(plan_calls[c].done, "upsert", "plan") # {} =>
             \E e \in EventsOfType("PlanCreated") :
                event_store[e].aggregate_id = dag_plan(c).plan_id
    /\ \A c \in 1..Len(orch_calls) :
          StepsOf(orch_calls[c].done, "upsert", "assigned") # {} =>
             \E e \in EventsOfType("TaskAssigned") :
                event_store[e].aggregate_id = orch_calls[c].task_id

\* C7 amended: a row is upserted only after the PlanCreationStarted
\* (OrchestrationStarted) event of its invocation was appended, and the
\* PlanCreated (TaskAssigned) event is appended only after the rows it
\* records were upserted: between the two writes the projection holds rows
\* whose recording event is not in the log.
C7_RowsAfterStartedBeforeRecordingEvent ==
    /\ \A c \in 1..Len(plan_calls) :
          LET done == plan_calls[c].done
          IN  /\ \A i \in StepsOf(done, "upsert", "plan")
                          \cup StepsOf(done, "upsert", "tasks") :
                    \E j \in StepsOf(done, "event", "PlanCreationStarted") :
                        j < i /\ InLog(done[j])
              /\ \A i \in StepsOf(done, "event", "PlanCreated") :
                    /\ InLog(done[i])
                    /\ \E j \in StepsOf(done, "upsert", "plan") : j < i
                    /\ \E j \in StepsOf(done, "upsert", "tasks") :
                          j < i /\ done[j].at = Len(dag_plan(c).tasks)
    /\ \A c \in 1..Len(orch_calls) :
          LET done == orch_calls[c].done
          IN  /\ \A i \in StepsOf(done, "upsert", "processing")
                          \cup StepsOf(done, "upsert", "assigned") :
                    \E j \in StepsOf(done, "event", "OrchestrationStarted") :
                        j < i /\ InLog(done[j])
              /\ \A i \in StepsOf(done, "event", "TaskAssigned") :
                    /\ InLog(done[i])
                    /\ \E j \in StepsOf(done, "upsert", "assigned") : j < i
    /\ plan_read_model # <<>> => EventsOfType("PlanCreationStarted") # {}
    /\ Len(plan_read_model) <=
          Cardinality({c \in 1..Len(plan_calls) :
                          StepsOf(plan_calls[c].done, "upsert", "plan") # {}})
    /\ Cardinality(EventsOfType("PlanCreated")) <=
          Cardinality({c \in 1..Len(plan_calls) :
                          StepsOf(plan_calls[c].done, "upsert", "tasks") # {}})

\* between the two writes: a create_plan and an orchestrate_request have
\* upserted their rows and neither recording event is in the log
C7_RowsWithoutRecordingEvent ==
    /\ \E c \in 1..Len(plan_calls) : plan_calls[c].pc = "store_created"
    /\ \E c \in 1..Len(orch_calls) : orch_calls[c].pc = "store_assigned"
    /\ plan_read_model # <<>>
    /\ task_read_model # <<>>
    /\ EventsOfType("PlanCreated") = {}
    /\ EventsOfType("TaskAssigned") = {}

\* C8: the submission queues are bounded: with a capacity below the number
\* of submissions a run makes, neither queue ever holds as many requests as
\* were submitted.
C8_QueueBounded ==
    /\ Len(planning_queue.items) < MaxPlanQueued
    /\ Len(request_queue.items) < MaxOrchQueued

\* C10: the event log is append-only: every step of create_plan,
\* orchestrate_request and the webhooks leaves each event of the log in its
\* place with all its fields unchanged.
C10_EventLogAppendOnly ==
    [][/\ Len(event_store') >= Len(event_store)
       /\ \A i \in 1..Len(event_store) : event_store'[i] = event_store[i]]_vars

\* events of a create_plan and of a webhook follow one another in the log
C10_LogOfSeveralOperations ==
    /\ Len(event_store) >= 3
    /\ EventsOfType("PlanCreationStarted") # {}
    /\ EventsOfType("PlanCreated") # {}
    /\ EventsOfType("TaskCompleted") \cup EventsOfType("TaskFailed")
          \cup EventsOfType("OrchestrationStarted") # {}

-----------------------------------------------------------------------------
(* Properties of the task templates and of the plan figures *)

\* C11: for a workflow plan of moderate complexity generate_dag produces
\* exactly 5 tasks in template order with priorities 5,4,3,2,1, and each
\* task depends on its immediate predecessor: 4 successive dependency edges
\* that form one chain from Requirements Gathering to Testing & Validation.
C11_WorkflowChainOfFive ==
    (/\ result.call = "generate_dag"
     /\ result.plan_type = "workflow"
     /\ result.analysis.complexity = "moderate") =>
        /\ result.plan.raised = "none"
        /\ LET plan == result.plan.value
               ts == plan.tasks
           IN  /\ Len(ts) = 5
               /\ [i \in 1..Len(ts) |-> ts[i].task_name]
                     = [i \in 1..Len(workflow_sequence) |-> workflow_sequence[i].name]
               /\ [i \in 1..Len(ts) |-> ts[i].priority] = <<5, 4, 3, 2, 1>>
               /\ \A i \in 2..Len(ts) : ts[i].dependencies = <<ts[i - 1].task_id>>
               /\ ts[1].dependencies = <<>>
               /\ EdgeSet(plan.graph)
                     = {<<ts[i - 1].task_id, ts[i].task_id>> : i \in 2..Len(ts)}

\* d * tenths / 10 rounded to the nearest integer, a tie to the even one
RoundTenths(d, tenths) ==
    LET q == (d * tenths) \div 10
        r == (d * tenths) % 10
    IN  IF r > 5 \/ (r = 5 /\ q % 2 = 1) THEN q + 1 ELSE q

\* base durations of the phase template a plan type uses
TemplateDurations(plan_type, analysis) ==
    IF plan_type = "workflow"
    THEN [i \in 1..Len(workflow_sequence) |-> workflow_sequence[i].duration]
    ELSE [i \in 1..Len(project_phases(analysis)) |-> project_phases(analysis)[i].duration]

\* C12: with complexity "complex", every task generated from a phase
\* template (workflow as well as project) has estimated_duration equal to
\* the template's base duration times 1.4, rounded to the nearest integer.
C12_ComplexScalesTemplateDurations ==
    (/\ result.call = "generate_dag"
     /\ result.plan_type \in {"workflow", "project"}
     /\ result.analysis.complexity = "complex") =>
        /\ result.plan.raised = "none"
        /\ LET ts == result.plan.value.tasks
               base == TemplateDurations(result.plan_type, result.analysis)
           IN  /\ Len(ts) = Len(base)
               /\ \A i \in 1..Len(ts) :
                     ts[i].estimated_duration = RoundTenths(base[i], 14)

\* sum of the durations of the ids of a list that are tasks of ts
DurationOnPath(ts, path) ==
    SumSeq([i \in 1..Len(path) |->
               IF \E k \in 1..Len(ts) : ts[k].task_id = path[i]
               THEN Duration(ts, path[i]) ELSE 0])

AllDurations(ts) == SumSeq([i \in 1..Len(ts) |-> ts[i].estimated_duration])

\* C13: total_estimated_duration equals the sum of estimated_duration over
\* the tasks on critical_path; it is 0 for a plan with no tasks; and when
\* critical_path is empty although tasks exist it equals the sum of all task
\* durations.
C13_TotalDurationFromCriticalPath ==
    /\ (result.call = "total_duration") =>
          /\ result.critical_path # <<>> =>
                result.total_duration = DurationOnPath(tasks, result.critical_path)
          /\ tasks = <<>> => result.total_duration = 0
          /\ (result.critical_path = <<>> /\ tasks # <<>>) =>
                result.total_duration = AllDurations(tasks)
    /\ (result.call = "generate_dag" /\ result.plan.raised = "none") =>
          /\ result.plan.value.critical_path # <<>>
          /\ result.plan.value.total_estimated_duration
                = DurationOnPath(result.plan.value.tasks,
                                 result.plan.value.critical_path)
    /\ (result.call = "analysis" /\ result.total_duration.raised = "none") =>
          /\ result.critical_path.value # <<>>
          /\ result.total_duration.value
                = DurationOnPath(tasks, result.critical_path.value)

\* the total of an empty critical path over several tasks has been computed
C13_EmptyPathOverTasks ==
    /\ result.call = "total_duration"
    /\ result.critical_path = <<>>
    /\ Len(tasks) > 1
    /\ result.total_duration = AllDurations(tasks)
    /\ result.total_duration > MaxDuration

\* the groups are exactly the levels of more than one member, each once
GroupsAreWideLevels(groups, order) ==
    /\ Range(groups) = {order[l] : l \in {k \in 1..Len(order) : Len(order[k]) > 1}}
    /\ Cardinality(Range(groups)) = Len(groups)
    /\ \A g \in 1..Len(groups) :
          /\ Len(groups[g]) > 1
          /\ \A i, j \in 1..Len(groups[g]) :
                LevelOf(order, groups[g][i]) = LevelOf(order, groups[g][j])

\* two nodes without predecessors that both have an edge to one third node
SharedSuccessor(G, a, b) ==
    /\ a # b
    /\ \A e \in EdgeSet(G) : e[2] # a /\ e[2] # b
    /\ \E c \in NodeSet(G) : <<a, c>> \in EdgeSet(G) /\ <<b, c>> \in EdgeSet(G)

\* C14: parallelization_opportunities is exactly the set of execution
\* levels that have more than one member: every level of execution_order of
\* size > 1 appears as a group, no group has size 1 or mixes tasks of
\* different levels, and for two independent roots that feed one shared task
\* there is a group that contains both roots.
C14_ParallelGroupsAreWideLevels ==
    /\ (result.call = "analysis" /\ ~HasCycle(graph)) =>
          /\ result.execution_order.raised = "none"
          /\ result.parallelization.raised = "none"
          /\ GroupsAreWideLevels(result.parallelization.value,
                                 result.execution_order.value)
          /\ \A a, b \in NodeSet(graph) :
                SharedSuccessor(graph, a, b) =>
                   \E g \in Range(result.parallelization.value) :
                      Contains(g, a) /\ Contains(g, b)
    /\ (result.call = "generate_dag" /\ result.plan.raised = "none") =>
          GroupsAreWideLevels(result.plan.value.parallelization_opportunities,
                              result.plan.value.execution_order)

\* two roots that feed one shared task have been analysed: the roots are
\* the one group, the shared task is a level of its own
C14_TwoRootsOneGroup ==
    /\ result.call = "analysis"
    /\ \E a, b \in NodeSet(graph) : SharedSuccessor(graph, a, b)
    /\ result.parallelization.raised = "none"
    /\ Len(result.parallelization.value) = 1
    /\ Len(result.parallelization.value[1]) = 2
    /\ Len(result.execution_order.value) = 2

\* number of levels of an execution order that hold more than one task
WideLevels(order) == Cardinality({l \in 1..Len(order) : Len(order[l]) > 1})

\* C15: the PlanningResponse a successful create_plan returns reports
\* parallel_execution_groups equal to the number of parallel groups of the
\* plan (levels with more than one task), total_tasks equal to the number of
\* tasks, and estimated_total_duration equal to the plan's total duration.
C15_ResponseReportsPlanFigures ==
    \A c \in 1..Len(plan_calls) :
        plan_calls[c].pc = "returned" =>
            /\ PlanningResponse(c).parallel_execution_groups
                  = WideLevels(dag_plan(c).execution_order)
            /\ PlanningResponse(c).parallel_execution_groups
                  = Len(dag_plan(c).parallelization_opportunities)
            /\ PlanningResponse(c).total_tasks = Len(dag_plan(c).tasks)
            /\ PlanningResponse(c).estimated_total_duration
                  = dag_plan(c).total_estimated_duration

-----------------------------------------------------------------------------
(* Properties of orchestrate_request (Spec) *)

\* the outcome of the Prompt Engineer call a history records ("" when the
\* call has not been made)
RefinerOutcome(done) ==
    IF \E i \in 1..Len(done) : done[i].op = "http"
    THEN done[CHOOSE i \in 1..Len(done) : done[i].op = "http"].type
    ELSE ""

\* the TaskAssigned events appended for a call
TaskAssignedOf(c) ==
    {e \in EventsOfType("TaskAssigned") :
        event_store[e].aggregate_id = orch_calls[c].task_id}

\* the step that makes the Prompt Engineer call of invocation c
RefinerStep(c) ==
    /\ c \in 1..Len(orch_calls) /\ c \in 1..Len(orch_calls')
    /\ orch_calls[c].pc = "prompt_engineer"
    /\ orch_calls'[c] # orch_calls[c]

RefinerStepContinues(c) ==
    /\ orch_calls'[c].pc = "upsert_assigned"
    /\ orch_calls'[c].error = "none"
    /\ RefinerOutcome(orch_calls'[c].done) \in PromptEngineerOutcomes
    /\ RefinerOutcome(orch_calls'[c].done) # "200" =>
          orch_calls'[c].prompt_response.refined_prompt
             = orch_calls[c].request.objective

RefinerFailureKeepsObjective ==
    \A c \in 1..Len(orch_calls) :
        RefinerOutcome(orch_calls[c].done) \in {"non200", "exception"} =>
            /\ orch_calls[c].prompt_response.refined_prompt
                  = orch_calls[c].request.objective
            /\ orch_calls[c].pc \in {"except", "failed", "raised"} =>
                  orch_calls[c].error \in DbOutcomes
            /\ orch_calls[c].pc = "returned" =>
                  \E e \in TaskAssignedOf(c) :
                     /\ event_store[e].event_data[2].prompt_response.refined_prompt
                           = orch_calls[c].request.objective
                     /\ event_store[e].event_data[2].assigned_team
                           = assigned_team(orch_calls[c].request)

StepKinds(done) == [i \in 1..Len(done) |-> <<done[i].op, done[i].type>>]

\* the rows of the task projection that belong to a task id
TaskRows(task_id) == RowWith(task_read_model, "task_id", task_id)

\* C17: in every successful orchestrate_request the OrchestrationStarted
\* event is appended first, the task projection row is upserted with the
\* assigned team and status "assigned" next, and then exactly one
\* TaskAssigned event is appended, whose correlation id is the request's
\* request_id and whose aggregate id is the task id of the response.
C17_StartedUpsertAssignedOrder ==
    \A c \in 1..Len(orch_calls) :
        orch_calls[c].pc = "returned" =>
            LET call == orch_calls[c]
                kinds == StepKinds(call.done)
                started == call.done[1]
                assigned == call.done[Len(call.done)]
            IN  /\ SelectSeq(kinds, LAMBDA k : k[1] # "http")
                      = << <<"event", "OrchestrationStarted">>,
                           <<"upsert", "processing">>,
                           <<"upsert", "assigned">>,
                           <<"event", "TaskAssigned">> >>
                /\ InLog(started) /\ InLog(assigned)
                /\ started.at < assigned.at
                /\ TaskAssignedOf(c) = {assigned.at}
                /\ event_store[assigned.at].correlation_id = Str(call.request.request_id)
                /\ event_store[assigned.at].aggregate_id = OrchestrationResponse(c).task_id
                /\ TaskRows(call.task_id) # {}
                /\ \A r \in TaskRows(call.task_id) :
                      /\ "assigned_team" \in DOMAIN task_read_model[r]
                      /\ task_read_model[r].assigned_team
                            = Str(OrchestrationResponse(c).assigned_team)
                      /\ task_read_model[r].task_status = Str("assigned")

\* every scheduled callback belongs to an answered call that gave a callback
\* url, carries the response of that call, and was attempted at most once
CallbacksOfAnsweredCalls ==
    /\ \A b \in 1..Len(background) :
          LET c == background[b].call
          IN  /\ c \in 1..Len(orch_calls)
              /\ orch_calls[c].pc = "returned"
              /\ orch_calls[c].request.callback_url # NULL
              /\ background[b].callback_url = orch_calls[c].request.callback_url
              /\ background[b].response_data = OrchestrationResponse(c)
              /\ background[b].attempts <= 1
              /\ background[b].attempts = 1 <=> background[b].state # "scheduled"
              /\ \A b2 \in 1..Len(background) : background[b2].call = c => b2 = b
    /\ \A c \in 1..Len(orch_calls) :
          orch_calls[c].request.callback_url = NULL =>
             \A b \in 1..Len(background) : background[b].call # c

\* a callback is added in the step that returns the response
CallbackAddedWithResponse ==
    Len(background') > Len(background) =>
        /\ Len(background') = Len(background) + 1
        /\ LET c == background'[Len(background')].call
           IN  /\ orch_calls[c].pc = "store_assigned"
               /\ orch_calls'[c].pc = "returned"

\* an attempt changes the callback's own state and nothing else
CallbackAttemptIsolated ==
    \A b \in 1..Len(background) :
        (b \in 1..Len(background') /\ background'[b] # background[b]) =>
            /\ background[b].state = "scheduled"
            /\ background'[b].state \in {"delivered", "failed"}
            /\ background'[b].response_data = background[b].response_data
            /\ UNCHANGED <<event_store, task_read_model, plan_read_model, orch_calls>>

\* C18: a callback is scheduled only when the request supplied a callback
\* URL and only after the response is built; it is attempted at most once,
\* and its failure or timeout changes neither the response returned to the
\* caller nor the event log or the projection.
C18_CallbackOnceAndIsolated ==
    /\ []CallbacksOfAnsweredCalls
    /\ [][CallbackAddedWithResponse /\ CallbackAttemptIsolated]_vars

\* the callback of an answered request has failed
C18_CallbackFailed ==
    \E b \in 1..Len(background) :
        /\ background[b].state = "failed"
        /\ background[b].attempts = 1
        /\ orch_calls[background[b].call].pc = "returned"
        /\ EventsOfType("TaskAssigned") # {}

-----------------------------------------------------------------------------
(* Properties of the PlanningManager (PlanningManagerSpec) *)

\* the app_type fallback table of determine_best_team
AppTypeTeams ==
    [code_generation |-> "code_generation", software_development |-> "code_generation",
     fullstack |-> "code_generation", testing |-> "testing_qa", qa |-> "testing_qa",
     quality_assurance |-> "testing_qa", computer_vision |-> "vision_computational",
     design_generation |-> "creative_design",
     workflow_automation |-> "business_automation",
     medical_ai |-> "healthcare_specialists", branding_ai |-> "marketing_creatives"]

\* every team the two tables name
AllTeams ==
    {team_mapping[i][2] : i \in 1..Len(team_mapping)}
       \cup {AppTypeTeams[a] : a \in DOMAIN AppTypeTeams}

\* C19: determine_best_team returns the team mapped to the first element of
\* capabilities_needed, in list order, that is present in the capability
\* mapping; if none is present it returns the team of the app_type fallback
\* table; if that does not match either it returns the default team
\* business_automation: it returns a team for every input.
C19_FirstKnownCapabilityDecides ==
    result.call = "determine_best_team" =>
        LET caps == result.capabilities_needed
            hits == {i \in 1..Len(caps) : in_team_mapping(caps[i])}
        IN  /\ result.team \in AllTeams
            /\ hits # {} =>
                  \E i \in hits :
                     /\ \A j \in hits : i <= j
                     /\ result.team = team_mapping_get(caps[i])
            /\ (hits = {} /\ result.app_type \in DOMAIN AppTypeTeams) =>
                  result.team = AppTypeTeams[result.app_type]
            /\ (hits = {} /\ result.app_type \notin DOMAIN AppTypeTeams) =>
                  result.team = "business_automation"

\* a known capability after an unknown one decided, against the team of the
\* application type
C19_SecondCapabilityDecides ==
    /\ result.call = "determine_best_team"
    /\ result.capabilities_needed = <<"visual_reasoning", "data_analysis">>
    /\ result.app_type = "medical_ai"
    /\ result.team = "research"

\* the multiplier of a priority, in tenths
PriorityTenths(priority) ==
    IF priority <= 2 THEN 7 ELSE IF priority <= 5 THEN 9 ELSE 12

\* C20: estimate_duration returns max(round(base * m), 10), where base is
\* the team's nominal response time (60 for a team the table lacks) and m is
\* 0.7 for priority <= 2, 0.9 for priority <= 5 and 1.2 otherwise, rounded
\* to the nearest integer (31.5 for base 45 at priority 1 becomes 32).
C20_DurationIsRoundedProduct ==
    result.call = "estimate_duration" =>
        result.duration
           = Max2(RoundTenths(response_time(result.team_name),
                              PriorityTenths(result.priority)), 10)

\* C21: estimate_duration is monotonic in priority: for a fixed team and
\* task type and two priorities p <= q, the estimate for p is not larger
\* than the estimate for q (in particular priority 1 against priority 9).
C21_DurationMonotonicInPriority ==
    result.call = "estimate_duration" =>
        \A q \in 1..MaxPriority :
            result.priority <= q =>
                result.duration <= estimate_duration(result.team_name, "task", q)

\* the estimate of priority 1 has been computed for a team whose estimate
\* of priority 9 is strictly larger
C21_UrgentIsFaster ==
    /\ result.call = "estimate_duration"
    /\ result.priority = 1
    /\ result.team_name = "healthcare_specialists"
    /\ result.duration < estimate_duration(result.team_name, "task", 9)

-----------------------------------------------------------------------------
(* Properties that relate several invocations (Spec) *)

\* the keys of the mapping of map_task_type_to_team
MappedTaskTypes ==
    {"computer_vision", "image_analysis", "design_generation", "brand_development",
     "workflow_automation", "process_optimization", "data_analysis",
     "medical_diagnosis", "clinical_reasoning", "content_creation", "social_media",
     "analysis", "development"}

\* the tasks of the plans generated so far, as <<call, index>>
PlannedTasks ==
    {<<c, i>> \in (1..Len(plan_calls)) \X (1..6) :
        /\ plan_calls[c].pc \in {"upsert_plan", "upsert_tasks", "store_created",
                                 "returned"}
        /\ i <= Len(plan_calls[c].dag_plan.tasks)}

PlannedTask(ci) == plan_calls[ci[1]].dag_plan.tasks[ci[2]]

\* the arguments orchestrate_request passes to determine_best_team
TeamArguments(request) ==
    <<request.task_type, get_app_type(request.app_id),
      extract_capabilities(request.task_type)>>

-----------------------------------------------------------------------------
(* Properties of the order of the writes (Spec, PlannerFairSpec) *)

PlanTerminal == {"returned", "failed", "raised"}

\* the writes of a returned create_plan, in order
PlanWritesInOrder(c) ==
    LET call == plan_calls[c]
        done == call.done
    IN  /\ StepKinds(done) = << <<"event", "PlanCreationStarted">>, <<"upsert", "plan">>,
                                <<"upsert", "tasks">>, <<"event", "PlanCreated">> >>
        /\ InLog(done[1]) /\ InLog(done[4])
        /\ done[1].at < done[4].at
        /\ done[3].at = Len(call.dag_plan.tasks)

\* a PlanCreated step of a history comes after the upsert of the plan row
\* and the upserts of all task rows, whose rows are in the projection
CreatedAfterRows(c) ==
    LET call == plan_calls[c]
        done == call.done
    IN  \A i \in StepsOf(done, "event", "PlanCreated") :
           /\ \E p \in StepsOf(done, "upsert", "plan"), t \in StepsOf(done, "upsert", "tasks") :
                 /\ p < t /\ t < i
                 /\ done[t].at = Len(call.dag_plan.tasks)
           /\ plan_read_model # <<>>
           /\ \A k \in 1..Len(call.dag_plan.tasks) :
                 TaskRows(call.dag_plan.tasks[k].task_id) # {}

PlanWritesOrdered ==
    \A c \in 1..Len(plan_calls) :
        /\ plan_calls[c].pc = "returned" => PlanWritesInOrder(c)
        /\ CreatedAfterRows(c)
        /\ plan_calls[c].pc \in PlanTerminal =>
              (plan_calls[c].pc = "returned" <=> plan_calls[c].error = "none")

\* an invocation that has ended stays as it ended
PlanOutcomeFinal ==
    \A c \in 1..Len(plan_calls) :
        plan_calls[c].pc \in PlanTerminal => plan_calls'[c] = plan_calls[c]

\* C23: every successful create_plan writes in the order PlanCreationStarted
\* event, plan projection upsert, task projection upserts, PlanCreated event,
\* and then returns; PlanCreated is never appended unless the plan row and
\* all task rows were upserted; every invocation ends in exactly one of the
\* outcomes returned or failed.
C23_CreatePlanWriteOrder ==
    /\ []PlanWritesOrdered
    /\ [][PlanOutcomeFinal]_vars
    /\ \A c \in 1..MaxPlanCalls :
          [](Len(plan_calls) >= c =>
                <>(Len(plan_calls) >= c /\ plan_calls[c].pc \in PlanTerminal))

\* a plan of six tasks was created and returned
C23_ProjectPlanReturned ==
    \E c \in 1..Len(plan_calls) :
        /\ plan_calls[c].pc = "returned"
        /\ Len(plan_calls[c].dag_plan.tasks) = 6
        /\ EventsOfType("PlanCreated") # {}

-----------------------------------------------------------------------------
(* Properties of establish_dependencies (GraphSpec) *)

HasType(ts, type) == \E i \in 1..Len(ts) : ts[i].task_type = type

\* the first task of a type in task-list order
FirstOfType(ts, type) ==
    ts[CHOOSE i \in 1..Len(ts) :
          /\ ts[i].task_type = type
          /\ \A j \in 1..(i - 1) : ts[j].task_type # type]

\* the dependencies the two heuristics give task t of the list ts
HeuristicDependencies(ts, t) ==
    IF t.task_type = "design" /\ HasType(ts, "analysis")
    THEN <<FirstOfType(ts, "analysis").task_id>>
    ELSE IF t.task_type = "development" /\ HasType(ts, "design")
    THEN <<FirstOfType(ts, "design").task_id>>
    ELSE <<>>

HeuristicEdges(ts) ==
    {<<HeuristicDependencies(ts, ts[i])[1], ts[i].task_id>> :
        i \in {k \in 1..Len(ts) : HeuristicDependencies(ts, ts[k]) # <<>>}}

\* C24: when both an analysis and a design task exist, establish_dependencies
\* makes every design task depend on the first analysis task (in task-list
\* order), and when both design and development tasks exist, every
\* development task on the first design task; each dependency is recorded in
\* the task's dependencies list and as a graph edge, and no other edge is
\* added.
C24_HeuristicDependenciesOnly ==
    result.call = "establish_dependencies" =>
        LET given == result.given
            ts == result.built.tasks
            G == result.built.graph
        IN  /\ Len(ts) = Len(given)
            /\ \A i \in 1..Len(ts) :
                  ts[i] = [given[i] EXCEPT
                              !.dependencies = HeuristicDependencies(given, given[i])]
            /\ G.nodes = task_ids(given)
            /\ EdgeSet(G) = HeuristicEdges(given)
            /\ Len(G.edges) = Cardinality(HeuristicEdges(given))

\* an analysis, a design and a development task were given in reverse order
\* and chained by the two heuristics
C24_ChainOfThree ==
    /\ result.call = "establish_dependencies"
    /\ [i \in 1..Len(result.given) |-> result.given[i].task_type]
          = <<"development", "design", "analysis">>
    /\ result.built.graph.edges
          = << <<NodeId(3), NodeId(2)>>, <<NodeId(2), NodeId(1)>> >>
    /\ result.built.tasks[1].dependencies = <<NodeId(2)>>

\* the task durations generate_dag produces for the analysis with its
\* complexity replaced by "moderate"
ModerateDurations(analysis, plan_type) ==
    LET ts == generate_tasks([analysis EXCEPT !.complexity = "moderate"],
                             plan_type, 1).value
    IN  [i \in 1..Len(ts) |-> ts[i].estimated_duration]

\* C25: an unrecognized complexity tag is treated as moderate: plan
\* generation with an unknown complexity value succeeds for every plan type
\* and uses the multiplier 1.0 for every task duration instead of failing.
C25_UnknownComplexityIsModerate ==
    (/\ result.call = "generate_dag"
     /\ result.analysis.complexity \notin ComplexityLevels) =>
        /\ result.plan.raised = "none"
        /\ [i \in 1..Len(result.plan.value.tasks) |->
               result.plan.value.tasks[i].estimated_duration]
              = ModerateDurations(result.analysis, result.plan_type)

\* the task type of a node of the current graph
TypeOfNode(id) == task_of(tasks, id).task_type

\* C26: for every list of tasks, whatever their types, the graph that
\* generate_dag and establish_dependencies build is acyclic (its edges only
\* go from analysis to design and from design to development), so
\* execution_order has at most 3 levels and the cycle fallbacks of
\* calculate_execution_order, calculate_critical_path and
\* find_parallelization_opportunities are not reached from generate_dag.
C26_GeneratedGraphAcyclic ==
    (\/ result.call = "establish_dependencies"
     \/ (result.call = "generate_dag" /\ result.plan.raised = "none")) =>
        /\ ~HasCycle(graph)
        /\ \A e \in EdgeSet(graph) :
              <<TypeOfNode(e[1]), TypeOfNode(e[2])>>
                 \in {<<"analysis", "design">>, <<"design", "development">>}
        /\ ~topological_sort(graph).unfeasible
        /\ result.plan.raised = "none"
        /\ graph = result.plan.value.graph
        /\ Len(result.plan.value.execution_order) <= 3

\* a task list whose graph has the three levels analysis, design,
\* development was analysed
C26_ThreeLevels ==
    /\ result.call = "establish_dependencies"
    /\ result.plan.raised = "none"
    /\ Len(result.plan.value.execution_order) = 3
    /\ Len(graph.edges) = 2

\* the events of a type the invocations of create_plan appended, as
\* <<call, step>>
PlanEventSteps(type) ==
    {<<c, i>> \in (1..Len(plan_calls)) \X (1..5) :
        i \in StepsOf(plan_calls[c].done, "event", type)}

\* C27: no invocation of create_plan appends both a PlanCreated and a
\* PlanCreationFailed event: once PlanCreated is appended the invocation
\* cannot fail, and each invocation appends at most one PlanCreated and at
\* most one PlanCreationFailed.
C27_CreatedExcludesFailed ==
    /\ \A c \in 1..Len(plan_calls) :
          LET done == plan_calls[c].done
              created == StepsOf(done, "event", "PlanCreated")
              failed == StepsOf(done, "event", "PlanCreationFailed")
          IN  /\ Cardinality(created) <= 1
              /\ Cardinality(failed) <= 1
              /\ created = {} \/ failed = {}
              /\ created # {} =>
                    /\ plan_calls[c].pc = "returned"
                    /\ plan_calls[c].error = "none"
              /\ \A i \in created \cup failed : InLog(done[i])
    /\ Cardinality(EventsOfType("PlanCreated"))
          = Cardinality(PlanEventSteps("PlanCreated"))
    /\ Cardinality(EventsOfType("PlanCreationFailed"))
          = Cardinality(PlanEventSteps("PlanCreationFailed"))

\* one invocation appended PlanCreated and returned, another one failed and
\* appended PlanCreationFailed
C27_OneCreatedOneFailed ==
    /\ Len(plan_calls) = 2
    /\ \E c1, c2 \in 1..Len(plan_calls) :
          /\ plan_calls[c1].pc = "returned"
          /\ plan_calls[c2].pc = "failed"
          /\ StepsOf(plan_calls[c2].done, "upsert", "plan") # {}
    /\ Cardinality(EventsOfType("PlanCreated")) = 1
    /\ Cardinality(EventsOfType("PlanCreationFailed")) = 1

-----------------------------------------------------------------------------
(* Properties of the queue workers (Spec) *)

\* requests of a service that were put on its queue, and those a worker
\* has dealt with
QueuedFor(service) == {a \in 1..Len(acks) : acks[a].service = service}

HandledFor(service) ==
    {i \in 1..Len(workers.handled) : workers.handled[i].service = service}

\* each request a worker took was marked done once: the unfinished count of
\* a queue is the number of requests put minus the number handled, the
\* handled ones left the queue, and every worker of the pool waits
WorkersAccountForQueue(q, service, pool, size) ==
    /\ q.unfinished_tasks = Cardinality(QueuedFor(service)) - Cardinality(HandledFor(service))
    /\ Len(q.items) = q.unfinished_tasks
    /\ Len(pool) = size
    /\ \A w \in 1..size : pool[w] = "waiting"

\* a step that takes a request from a queue marks it done in the same pass
\* of the loop, whatever processing did
DequeueMarksDone(q, qNext) ==
    Len(qNext.items) < Len(q.items) =>
        /\ Len(qNext.items) = Len(q.items) - 1
        /\ qNext.unfinished_tasks = q.unfinished_tasks - 1
        /\ Len(workers'.handled) = Len(workers.handled) + 1

\* C28: in the worker loops process_planning_queue and process_request_queue
\* every dequeued request leads to exactly one task_done call, whether the
\* processing succeeds or raises, and an exception of the processing never
\* ends the worker: it waits on the queue again, and the number of live
\* workers stays constant.
C28_OneTaskDonePerRequest ==
    /\ [](/\ WorkersAccountForQueue(planning_queue, "planner",
                                    workers.planner, PlannerWorkers)
          /\ WorkersAccountForQueue(request_queue, "orchestrator",
                                    workers.orchestrator, OrchestratorWorkers))
    /\ [][/\ DequeueMarksDone(planning_queue, planning_queue')
          /\ DequeueMarksDone(request_queue, request_queue')]_vars

\* the processing of two queued requests raised, both were marked done and
\* the workers wait again
C28_TwoRequestsHandled ==
    /\ Len(workers.handled) = 2
    /\ \A i \in 1..Len(workers.handled) : workers.handled[i].error = "AttributeError"
    /\ planning_queue.unfinished_tasks = 0
    /\ request_queue.unfinished_tasks = 0
    /\ \A w \in 1..PlannerWorkers : workers.planner[w] = "waiting"


-----------------------------------------------------------------------------
(* C29: the failure event of orchestrate_request *)

\* the OrchestrationFailed events an invocation of orchestrate_request
\* appended that are in the log under the request's request_id as
\* correlation id
OrchestrationFailedOf(c) ==
    {i \in StepsOf(orch_calls[c].done, "event", "OrchestrationFailed") :
        /\ InLog(orch_calls[c].done[i])
        /\ event_store[orch_calls[c].done[i].at].correlation_id =
              Str(orch_calls[c].request.request_id)}

-----------------------------------------------------------------------------
(* C30: the status of a task in task_read_model *)

FinalStatuses == {Str("completed"), Str("failed")}

\* the place of a status in processing -> assigned -> completed or failed;
\* 0 for a value that is none of the four
StatusRank(status) ==
    IF status = Str("processing") THEN 1
    ELSE IF status = Str("assigned") THEN 2
    ELSE IF status \in FinalStatuses THEN 3
    ELSE 0

\* the webhooks that have written their status for a task id
WrittenHooks ==
    {h \in 1..Len(hook_calls) :
        StepsOf(hook_calls[h].done, "upsert", hook_calls[h].task_data.kind) # {}}

\* after a task-completed or task-failed webhook has written, the row of its
\* task id is there and its status is completed or failed
WebhookWriteIsFinal ==
    \A h \in WrittenHooks :
        LET rows == TaskRows(hook_calls[h].task_data.task_id)
        IN  /\ rows # {}
            /\ \A r \in rows : task_read_model[r].task_status \in FinalStatuses

\* no write takes a row away, moves its status back, or changes a status
\* that is completed or failed
StatusMovesForward ==
    \A r \in 1..Len(task_read_model) :
        /\ r \in 1..Len(task_read_model')
        /\ StatusRank(task_read_model'[r].task_status)
              >= StatusRank(task_read_model[r].task_status)
        /\ task_read_model[r].task_status \in FinalStatuses =>
              task_read_model'[r].task_status = task_read_model[r].task_status

\* the rows never lose a status they show
RowsKeepStatus == [][StatusMovesForward]_vars

====
